---- MODULE Spec2Model ----
(***************************************************************************)
(* Model of the decision-and-confirmation core of the chat bot:            *)
(*   - the intent decision engine (src/lib/groq.js, shouldRespondAndReply) *)
(*   - the admin command registry lookup (src/lib/groq.js, ADMIN_COMMANDS) *)
(*   - the confirmation protocol (src/unnamed/part_001, the MessageCreate  *)
(*     and InteractionCreate handlers).                                    *)
(*                                                                         *)
(* JavaScript strings are modelled as sequences of UTF-16 code units       *)
(* (integers).  An absent optional string (undefined) is the empty         *)
(* sequence: every place of the code that reads one tests it for           *)
(* truthiness, which the empty string fails as well.                       *)
(***************************************************************************)
EXTENDS Integers, Sequences, FiniteSets, Bags, TLC

----------------------------------------------------------------------------
(* Bounds of the model *)

\* longest roleName (in code units) drawn for the role-name commands
MaxNameLen == 9
\* longest roleName / newRoleName drawn for renameRole
MaxRenameLen == 4
\* number of control activations (InteractionCreate events) in a behaviour
MaxActivations == 2
\* number of incoming messages (MessageCreate events) in a behaviour
MaxMessages == 1
\* most messages in the channel of an incoming message
MaxHistory == 16
\* number of messages of members that arrive in the channel in a behaviour
MaxArrivals == 2

----------------------------------------------------------------------------
(* Program constants, src/unnamed/part_001:15-21 *)

\* 'admin_confirm:'
ADMIN_CONFIRM_PREFIX == <<97,100,109,105,110,95,99,111,110,102,105,114,109,58>>
\* '||'
ADMIN_PAYLOAD_SEP == <<124,124>>
\* '\x01'
RENAME_PAYLOAD_SEP == <<1>>
CUSTOM_ID_MAX == 100
RECENT_MESSAGES_LIMIT == 15
BUTTON_LABEL_MAX == 80

clearMessages == <<99,108,101,97,114,77,101,115,115,97,103,101,115>>
kickUser == <<107,105,99,107,85,115,101,114>>
banUser == <<98,97,110,85,115,101,114>>
muteUser == <<109,117,116,101,85,115,101,114>>
createRole == <<99,114,101,97,116,101,82,111,108,101>>
deleteRole == <<100,101,108,101,116,101,82,111,108,101>>
renameRole == <<114,101,110,97,109,101,82,111,108,101>>
addToRole == <<97,100,100,84,111,82,111,108,101>>
removeFromRole == <<114,101,109,111,118,101,70,114,111,109,82,111,108,101>>
disconnectUser == <<100,105,115,99,111,110,110,101,99,116,85,115,101,114>>
moveUser == <<109,111,118,101,85,115,101,114>>
moveAllUsers == <<109,111,118,101,65,108,108,85,115,101,114,115>>
disconnectAllUsers == <<100,105,115,99,111,110,110,101,99,116,65,108,108,85,115,101,114,115>>

COMMANDS_WITH_ROLE_NAME == {createRole, deleteRole, addToRole, removeFromRole}
COMMAND_RENAME_ROLE == renameRole

----------------------------------------------------------------------------
(* JavaScript string primitives *)

Min(a, b) == IF a < b THEN a ELSE b
Max(a, b) == IF a > b THEN a ELSE b

\* s.slice(from, to) for from >= 0; a negative `to` counts from the end
Slice(s, from, to) ==
  LET e == IF to < 0 THEN Max(Len(s) + to, 0) ELSE Min(to, Len(s))
  IN  IF from >= e THEN <<>> ELSE SubSeq(s, from + 1, e)

\* s.slice(from)
SliceFrom(s, from) == Slice(s, from, Len(s))

\* s.startsWith(p)
StartsWith(s, p) == Len(s) >= Len(p) /\ SubSeq(s, 1, Len(p)) = p

\* s.indexOf(p): 0-based index of the first occurrence, -1 when there is none
IndexOf(s, p) ==
  LET hits == {i \in 0..(Len(s) - Len(p)) : SubSeq(s, i + 1, i + Len(p)) = p}
  IN  IF hits = {} THEN -1 ELSE CHOOSE i \in hits : \A j \in hits : i <= j

\* s.includes(p)
Includes(s, p) == IndexOf(s, p) >= 0

\* s.split(sep) for a non-empty separator: the list of parts
RECURSIVE Split(_, _)
Split(s, sep) ==
  LET i == IndexOf(s, sep)
  IN  IF i < 0 THEN <<s>>
      ELSE <<Slice(s, 0, i)>> \o Split(SliceFrom(s, i + Len(sep)), sep)

----------------------------------------------------------------------------
(* encodeURIComponent / decodeURIComponent (ECMAScript Encode and Decode), *)
(* called at src/unnamed/part_001:136,139,140 and :176,177,179             *)

\* the code unit of the upper-case hexadecimal digit n
HexDigit(n) == IF n < 10 THEN 48 + n ELSE 55 + n

\* '%XX' for the byte b
PercentByte(b) == <<37, HexDigit(b \div 16), HexDigit(b % 16)>>

\* IsUnreserved that also leaves the control characters below the space alone
IsUnreservedOrControl(c) ==
  \/ (c >= 65 /\ c <= 90) \/ (c >= 97 /\ c <= 122) \/ (c >= 48 /\ c <= 57)
  \/ c \in {45, 95, 46, 33, 126, 42, 39, 40, 41}
  \/ c < 32

\* the characters encodeURIComponent leaves alone: A-Z a-z 0-9 - _ . ! ~ * ' ( )
IsUnreserved(c) ==
  \/ (c >= 65 /\ c <= 90) \/ (c >= 97 /\ c <= 122) \/ (c >= 48 /\ c <= 57)
  \/ c \in {45, 95, 46, 33, 126, 42, 39, 40, 41}

IsHighSurrogate(c) == c >= 55296 /\ c <= 56319
IsLowSurrogate(c) == c >= 56320 /\ c <= 57343

\* the UTF-8 bytes of the code point cp
Utf8Bytes(cp) ==
  IF cp < 128 THEN <<cp>>
  ELSE IF cp < 2048 THEN <<192 + (cp \div 64), 128 + (cp % 64)>>
  ELSE IF cp < 65536
    THEN <<224 + (cp \div 4096), 128 + ((cp \div 64) % 64), 128 + (cp % 64)>>
  ELSE <<240 + (cp \div 262144), 128 + ((cp \div 4096) % 64),
         128 + ((cp \div 64) % 64), 128 + (cp % 64)>>

RECURSIVE PercentBytes(_)
PercentBytes(bs) ==
  IF bs = <<>> THEN <<>> ELSE PercentByte(Head(bs)) \o PercentBytes(Tail(bs))

\* encodeURIComponent(s): [ok |-> TRUE, val |-> the encoding], or ok = FALSE
\* when it throws URIError (a lone surrogate)
RECURSIVE encodeURIComponent(_)
encodeURIComponent(s) ==
  IF s = <<>> THEN [ok |-> TRUE, val |-> <<>>]
  ELSE
    LET c == Head(s)
    IN  IF IsUnreserved(c)
          THEN LET r == encodeURIComponent(Tail(s))
               IN  [ok |-> r.ok, val |-> <<c>> \o r.val]
        ELSE IF IsLowSurrogate(c) THEN [ok |-> FALSE, val |-> <<>>]
        ELSE IF IsHighSurrogate(c)
          THEN IF Len(s) < 2 \/ ~IsLowSurrogate(s[2])
                 THEN [ok |-> FALSE, val |-> <<>>]
                 ELSE LET cp == (c - 55296) * 1024 + (s[2] - 56320) + 65536
                          r == encodeURIComponent(Tail(Tail(s)))
                      IN  [ok |-> r.ok, val |-> PercentBytes(Utf8Bytes(cp)) \o r.val]
        ELSE LET r == encodeURIComponent(Tail(s))
             IN  [ok |-> r.ok, val |-> PercentBytes(Utf8Bytes(c)) \o r.val]

\* the value of a hexadecimal digit, -1 for any other code unit
HexValue(c) ==
  IF c >= 48 /\ c <= 57 THEN c - 48
  ELSE IF c >= 65 /\ c <= 70 THEN c - 55
  ELSE IF c >= 97 /\ c <= 102 THEN c - 87
  ELSE -1

\* the byte of the escape '%XX' that starts at position i (1-based) of s,
\* -1 when there is no well-formed escape there
EscapeAt(s, i) ==
  IF i + 2 > Len(s) \/ s[i] # 37 THEN -1
  ELSE IF HexValue(s[i + 1]) < 0 \/ HexValue(s[i + 2]) < 0 THEN -1
  ELSE 16 * HexValue(s[i + 1]) + HexValue(s[i + 2])

\* the UTF-16 code units of the code point cp
CodeUnits(cp) ==
  IF cp < 65536 THEN <<cp>>
  ELSE <<55296 + ((cp - 65536) \div 1024), 56320 + ((cp - 65536) % 1024)>>

\* number of bytes of the UTF-8 sequence led by byte b, 0 for an invalid lead
Utf8Length(b) ==
  IF b < 128 THEN 1
  ELSE IF b >= 194 /\ b <= 223 THEN 2
  ELSE IF b >= 224 /\ b <= 239 THEN 3
  ELSE IF b >= 240 /\ b <= 244 THEN 4
  ELSE 0

\* the smallest code point an n-byte UTF-8 sequence may encode
Utf8MinCodePoint(n) == IF n = 2 THEN 128 ELSE IF n = 3 THEN 2048 ELSE 65536

\* decodeURIComponent(s): [ok |-> TRUE, val |-> the decoding], or ok = FALSE
\* when it throws URIError (a malformed escape or malformed UTF-8)
RECURSIVE DecodeFrom(_, _)
DecodeFrom(s, i) ==
  IF i > Len(s) THEN [ok |-> TRUE, val |-> <<>>]
  ELSE IF s[i] # 37
    THEN LET Rest(r) == [ok |-> r.ok, val |-> <<s[i]>> \o r.val]
         IN  Rest(DecodeFrom(s, i + 1))
  ELSE
    LET Prepend(units, r) == [ok |-> r.ok, val |-> units \o r.val]
        CodePoint(n, cp) ==
          IF cp < Utf8MinCodePoint(n) \/ cp > 1114111 \/ (cp >= 55296 /\ cp <= 57343)
            THEN [ok |-> FALSE, val |-> <<>>]
            ELSE Prepend(CodeUnits(cp), DecodeFrom(s, i + 3 * n))
        Sequence(n, lead, cont) ==
          IF \E k \in 1..(n - 1) : cont[k] < 128 \/ cont[k] > 191
            THEN [ok |-> FALSE, val |-> <<>>]
            ELSE CodePoint(n, IF n = 2 THEN lead * 64 + (cont[1] - 128)
                              ELSE IF n = 3
                                THEN lead * 4096 + (cont[1] - 128) * 64 + (cont[2] - 128)
                              ELSE lead * 262144 + (cont[1] - 128) * 4096
                                   + (cont[2] - 128) * 64 + (cont[3] - 128))
        Lead(b, n) ==
          IF n = 0 THEN [ok |-> FALSE, val |-> <<>>]
          ELSE IF n = 1 THEN Prepend(<<b>>, DecodeFrom(s, i + 3))
          ELSE Sequence(n, IF n = 2 THEN b - 192 ELSE IF n = 3 THEN b - 224 ELSE b - 240,
                        [k \in 1..(n - 1) |-> EscapeAt(s, i + 3 * k)])
        Escape(b) == Lead(b, IF b < 0 THEN 0 ELSE Utf8Length(b))
    IN  Escape(EscapeAt(s, i))

decodeURIComponent(s) ==
  LET Result(r) == IF r.ok THEN r ELSE [ok |-> FALSE, val |-> <<>>]
  IN  Result(DecodeFrom(s, 1))

----------------------------------------------------------------------------
(* The admin command registry, src/lib/groq.js:128-492 *)

\* Object.keys(ADMIN_COMMANDS): the 13 registered command ids, in order
getAllCommandIds ==
  <<clearMessages, kickUser, banUser, muteUser, createRole, deleteRole,
    renameRole, addToRole, removeFromRole, disconnectUser, moveUser,
    moveAllUsers, disconnectAllUsers>>

RegistryIds == {getAllCommandIds[i] : i \in 1..Len(getAllCommandIds)}

\* the registry entries' buttonLabel
buttonLabel(id) ==
  CASE id = clearMessages -> <<67,111,110,102,105,114,109,32,99,108,101,97,114,32,109,101,115,115,97,103,101,115>>  \* 'Confirm clear messages'
    [] id = kickUser -> <<67,111,110,102,105,114,109,32,107,105,99,107>>  \* 'Confirm kick'
    [] id = banUser -> <<67,111,110,102,105,114,109,32,98,97,110>>  \* 'Confirm ban'
    [] id = muteUser -> <<67,111,110,102,105,114,109,32,116,105,109,101,111,117,116>>  \* 'Confirm timeout'
    [] id = createRole -> <<67,111,110,102,105,114,109,32,99,114,101,97,116,101,32,114,111,108,101>>  \* 'Confirm create role'
    [] id = deleteRole -> <<67,111,110,102,105,114,109,32,100,101,108,101,116,101,32,114,111,108,101>>  \* 'Confirm delete role'
    [] id = renameRole -> <<67,111,110,102,105,114,109,32,114,101,110,97,109,101,32,114,111,108,101>>  \* 'Confirm rename role'
    [] id = addToRole -> <<67,111,110,102,105,114,109,32,97,100,100,32,116,111,32,114,111,108,101>>  \* 'Confirm add to role'
    [] id = removeFromRole -> <<67,111,110,102,105,114,109,32,114,101,109,111,118,101,32,102,114,111,109,32,114,111,108,101>>  \* 'Confirm remove from role'
    [] id = disconnectUser -> <<67,111,110,102,105,114,109,32,100,105,115,99,111,110,110,101,99,116>>  \* 'Confirm disconnect'
    [] id = moveUser -> <<67,111,110,102,105,114,109,32,109,111,118,101,32,117,115,101,114>>  \* 'Confirm move user'
    [] id = moveAllUsers -> <<67,111,110,102,105,114,109,32,109,111,118,101,32,101,118,101,114,121,111,110,101>>  \* 'Confirm move everyone'
    [] id = disconnectAllUsers -> <<67,111,110,102,105,114,109,32,100,105,115,99,111,110,110,101,99,116,32,101,118,101,114,121,111,110,101>>  \* 'Confirm disconnect everyone'

\* ADMIN_COMMANDS is an object literal: besides its 13 own keys, a lookup
\* ADMIN_COMMANDS[id] finds the properties it inherits from Object.prototype
ObjectPrototypeKeys ==
  { <<99,111,110,115,116,114,117,99,116,111,114>>,  \* 'constructor'
    <<116,111,83,116,114,105,110,103>>,  \* 'toString'
    <<116,111,76,111,99,97,108,101,83,116,114,105,110,103>>,  \* 'toLocaleString'
    <<118,97,108,117,101,79,102>>,  \* 'valueOf'
    <<104,97,115,79,119,110,80,114,111,112,101,114,116,121>>,  \* 'hasOwnProperty'
    <<105,115,80,114,111,116,111,116,121,112,101,79,102>>,  \* 'isPrototypeOf'
    <<112,114,111,112,101,114,116,121,73,115,69,110,117,109,101,114,97,98,108,101>>,  \* 'propertyIsEnumerable'
    <<95,95,112,114,111,116,111,95,95>>,  \* '__proto__'
    <<95,95,100,101,102,105,110,101,71,101,116,116,101,114,95,95>>,  \* '__defineGetter__'
    <<95,95,100,101,102,105,110,101,83,101,116,116,101,114,95,95>>,  \* '__defineSetter__'
    <<95,95,108,111,111,107,117,112,71,101,116,116,101,114,95,95>>,  \* '__lookupGetter__'
    <<95,95,108,111,111,107,117,112,83,101,116,116,101,114,95,95>>  \* '__lookupSetter__'
  }

\* the value of a lookup: a registry entry (with handler and buttonLabel), an
\* inherited property (a function or object with neither), or null
Entry(id) == [kind |-> "entry", id |-> id]
Inherited(id) == [kind |-> "inherited", id |-> id]
Null == [kind |-> "null", id |-> <<>>]

\* getAdminCommand(id) { return ADMIN_COMMANDS[id] ?? null; }
getAdminCommand(id) ==
  IF id \in RegistryIds THEN Entry(id)
  ELSE IF id \in ObjectPrototypeKeys THEN Inherited(id)
  ELSE Null

\* truthiness of a lookup result: if (cmd), if (!cmd)
Truthy(cmd) == cmd.kind # "null"

----------------------------------------------------------------------------
(* Message handling, src/unnamed/part_001:23-59 and :115-159 *)

\* the code units String.prototype.trim removes (WhiteSpace and LineTerminator)
IsWhiteSpace(c) ==
  c \in {9, 10, 11, 12, 13, 32, 160, 5760, 8232, 8233, 8239, 8287, 12288, 65279}
  \/ (c >= 8192 /\ c <= 8202)

RECURSIVE TrimStart(_)
TrimStart(s) ==
  IF s # <<>> /\ IsWhiteSpace(Head(s)) THEN TrimStart(Tail(s)) ELSE s

RECURSIVE TrimEnd(_)
TrimEnd(s) ==
  IF s # <<>> /\ IsWhiteSpace(s[Len(s)])
    THEN TrimEnd(SubSeq(s, 1, Len(s) - 1)) ELSE s

\* s.trim()
Trim(s) == TrimEnd(TrimStart(s))

\* names.slice(0, 2).join(', ')
JoinFirstTwo(names) ==
  IF Len(names) = 0 THEN <<>>
  ELSE IF Len(names) = 1 THEN names[1]
  ELSE names[1] \o <<44,32>> \o names[2]

\* getConfirmButtonLabel(adminCommand, message, {roleName, newRoleName}):
\* the command-specific label, <<>> for null.  users are the usernames of
\* message.mentions.users, roleMention the name of message.mentions.roles.first()
getConfirmButtonLabel(adminCommand, users, roleMention, roleName, newRoleName) ==
  LET userNames == JoinFirstTwo(users)
      roleDisplay == IF roleMention # <<>> THEN roleMention
                     ELSE IF roleName # <<>> THEN roleName
                     ELSE <<114,111,108,101>>  \* 'role'
      quote == <<34>>
  IN  CASE adminCommand = clearMessages ->
             <<67,108,101,97,114,32,109,101,115,115,97,103,101,115,32,105,110,32,116,104,105,115,32,99,104,97,110,110,101,108>>
        [] adminCommand = kickUser ->
             IF userNames # <<>> THEN <<75,105,99,107,32>> \o userNames ELSE <<>>
        [] adminCommand = banUser ->
             IF userNames # <<>> THEN <<66,97,110,32>> \o userNames ELSE <<>>
        [] adminCommand = muteUser ->
             IF userNames # <<>> THEN <<84,105,109,101,111,117,116,32>> \o userNames ELSE <<>>
        [] adminCommand = createRole ->
             IF roleName # <<>>
               THEN <<67,114,101,97,116,101,32,114,111,108,101,32,34>> \o roleName \o quote
               ELSE <<>>
        [] adminCommand = deleteRole ->
             <<68,101,108,101,116,101,32,114,111,108,101,32,34>> \o roleDisplay \o quote
        [] adminCommand = renameRole ->
             IF newRoleName # <<>>
               THEN <<82,101,110,97,109,101,32,116,111,32,34>> \o newRoleName \o quote
               ELSE <<>>
        [] adminCommand = addToRole ->
             IF userNames # <<>>
               THEN <<65,100,100,32>> \o userNames \o <<32,116,111,32>> \o roleDisplay
               ELSE <<65,100,100,32,116,111,32>> \o roleDisplay
        [] adminCommand = removeFromRole ->
             IF userNames # <<>>
               THEN <<82,101,109,111,118,101,32>> \o userNames \o <<32,102,114,111,109,32>> \o roleDisplay
               ELSE <<82,101,109,111,118,101,32,102,114,111,109,32>> \o roleDisplay
        [] adminCommand = disconnectUser ->
             IF userNames # <<>> THEN <<68,105,115,99,111,110,110,101,99,116,32>> \o userNames ELSE <<>>
        [] adminCommand = moveUser ->
             IF userNames # <<>> THEN <<77,111,118,101,32>> \o userNames ELSE <<>>
        [] adminCommand = moveAllUsers -> <<77,111,118,101,32,101,118,101,114,121,111,110,101>>
        [] adminCommand = disconnectAllUsers -> <<68,105,115,99,111,110,110,101,99,116,32,101,118,101,114,121,111,110,101>>
        [] OTHER -> <<>>

\* BuildCustomId with the payload not cut to maxPayload
BuildCustomIdUncut(adminCommand, roleName, newRoleName) ==
  LET customId == ADMIN_CONFIRM_PREFIX \o adminCommand
      Encoded(e) ==
        [ok |-> e.ok,
         val |-> IF e.ok THEN customId \o ADMIN_PAYLOAD_SEP \o e.val ELSE <<>>]
      Pair(e1, e2) ==
        [ok |-> e1.ok /\ e2.ok,
         val |-> IF e1.ok /\ e2.ok
                   THEN customId \o ADMIN_PAYLOAD_SEP \o Slice(e1.val, 0, 35)
                        \o RENAME_PAYLOAD_SEP \o Slice(e2.val, 0, 35)
                   ELSE <<>>]
  IN  IF adminCommand \in COMMANDS_WITH_ROLE_NAME /\ roleName # <<>>
        THEN Encoded(encodeURIComponent(roleName))
      ELSE IF adminCommand = COMMAND_RENAME_ROLE /\ roleName # <<>>
              /\ newRoleName # <<>>
        THEN Pair(encodeURIComponent(roleName), encodeURIComponent(newRoleName))
      ELSE [ok |-> TRUE, val |-> customId]

\* lines 133-143: the control's customId for a Decision whose adminCommand has
\* a truthy registry lookup.  ok = FALSE when encodeURIComponent throws
BuildCustomId(adminCommand, roleName, newRoleName) ==
  LET customId == ADMIN_CONFIRM_PREFIX \o adminCommand
      maxPayload == CUSTOM_ID_MAX - Len(customId) - Len(ADMIN_PAYLOAD_SEP) - 2
  IN  IF adminCommand \in COMMANDS_WITH_ROLE_NAME /\ roleName # <<>>
        THEN LET e == encodeURIComponent(roleName)
                 payload == Slice(e.val, 0, maxPayload)
             IN  [ok |-> e.ok,
                  val |-> IF e.ok THEN customId \o ADMIN_PAYLOAD_SEP \o payload
                          ELSE <<>>]
      ELSE IF adminCommand = COMMAND_RENAME_ROLE /\ roleName # <<>>
              /\ newRoleName # <<>>
        THEN LET e1 == encodeURIComponent(roleName)
                 e2 == encodeURIComponent(newRoleName)
                 p1 == Slice(e1.val, 0, 35)
                 p2 == Slice(e2.val, 0, 35)
                 payload == Slice(p1 \o RENAME_PAYLOAD_SEP \o p2, 0, maxPayload)
             IN  [ok |-> e1.ok /\ e2.ok,
                  val |-> IF e1.ok /\ e2.ok
                            THEN customId \o ADMIN_PAYLOAD_SEP \o payload
                            ELSE <<>>]
      ELSE [ok |-> TRUE, val |-> customId]

\* BuildLabel without the length test of line 145: a command-specific label
\* is used whenever there is one, cut to BUTTON_LABEL_MAX
BuildLabelAlwaysSpecific(cmd, adminCommand, users, roleMention, roleName, newRoleName) ==
  LET Chosen(specificLabel) ==
        IF specificLabel # <<>>
          THEN [ok |-> TRUE, val |-> Slice(specificLabel, 0, BUTTON_LABEL_MAX)]
        ELSE IF cmd.kind = "entry"
          THEN [ok |-> TRUE, val |-> Slice(buttonLabel(cmd.id), 0, BUTTON_LABEL_MAX)]
        ELSE [ok |-> FALSE, val |-> <<>>]
  IN  Chosen(getConfirmButtonLabel(adminCommand, users, roleMention, roleName, newRoleName))

\* lines 144-145: the control's label.  ok = FALSE when cmd.buttonLabel is
\* undefined (cmd is no registry entry) and .slice is called on it
BuildLabel(cmd, adminCommand, users, roleMention, roleName, newRoleName) ==
  LET specificLabel ==
        getConfirmButtonLabel(adminCommand, users, roleMention, roleName, newRoleName)
  IN  IF specificLabel # <<>> /\ Len(specificLabel) <= BUTTON_LABEL_MAX
        THEN [ok |-> TRUE, val |-> Slice(specificLabel, 0, BUTTON_LABEL_MAX)]
      ELSE IF cmd.kind = "entry"
        THEN [ok |-> TRUE, val |-> Slice(buttonLabel(cmd.id), 0, BUTTON_LABEL_MAX)]
      ELSE [ok |-> FALSE, val |-> <<>>]

\* what handling a message sends
NothingSent(why) ==
  [kind |-> why, content |-> <<>>, customId |-> <<>>, label |-> <<>>]

\* lines 128-158 of the MessageCreate handler: what is sent for the Decision d
\* = {reply, adminCommand, roleName, newRoleName} of a message with the
\* mentions (users, roleMention); sendOk tells whether message.reply succeeds.
\*   kind "silent":  empty reply, nothing sent
\*   kind "plain":   message.reply(reply)
\*   kind "control": message.reply({content: reply, components: [row]})
\*   kind "failed":  an exception, caught and logged at lines 156-158
HandleDecision(d, users, roleMention, sendOk) ==
  IF Trim(d.reply) = <<>> THEN NothingSent("silent")
  ELSE
    LET cmd == IF d.adminCommand # <<>> THEN getAdminCommand(d.adminCommand)
               ELSE Null
    IN  IF Truthy(cmd)
          THEN LET customId == BuildCustomId(d.adminCommand, d.roleName, d.newRoleName)
                   label == BuildLabel(cmd, d.adminCommand, users, roleMention,
                                       d.roleName, d.newRoleName)
               IN  IF customId.ok /\ label.ok /\ sendOk
                     THEN [kind |-> "control", content |-> d.reply,
                           customId |-> customId.val, label |-> label.val]
                     ELSE NothingSent("failed")
        ELSE IF sendOk
          THEN [kind |-> "plain", content |-> d.reply,
                customId |-> <<>>, label |-> <<>>]
        ELSE NothingSent("failed")

----------------------------------------------------------------------------
(* Control activation, src/unnamed/part_001:161-211 *)

\* lines 164-167: the command id and the encoded payload of a customId that
\* starts with the prefix
ParseCustomId(customId) ==
  LET Parsed(afterPrefix, sepIdx) ==
        [commandId |-> IF sepIdx >= 0 THEN Slice(afterPrefix, 0, sepIdx)
                       ELSE afterPrefix,
         payloadEnc |-> IF sepIdx >= 0
                          THEN SliceFrom(afterPrefix, sepIdx + Len(ADMIN_PAYLOAD_SEP))
                          ELSE <<>>]
      After(afterPrefix) == Parsed(afterPrefix, IndexOf(afterPrefix, ADMIN_PAYLOAD_SEP))
  IN  After(SliceFrom(customId, Len(ADMIN_CONFIRM_PREFIX)))

NoOptions == [roleName |-> <<>>, newRoleName |-> <<>>]

\* lines 171-184: the options decoded from the payload; an exception of
\* decodeURIComponent leaves the options assigned before it and is ignored
DecodeOptions(commandId, payloadEnc) ==
  IF payloadEnc = <<>> THEN NoOptions
  ELSE IF commandId = COMMAND_RENAME_ROLE /\ Includes(payloadEnc, RENAME_PAYLOAD_SEP)
    THEN LET Decoded(a, b, da, db) ==
               IF a # <<>> /\ ~da.ok THEN NoOptions
               ELSE [roleName |-> IF a # <<>> THEN da.val ELSE <<>>,
                     newRoleName |-> IF b # <<>> /\ db.ok THEN db.val ELSE <<>>]
             Parts(a, b) == Decoded(a, b, decodeURIComponent(a), decodeURIComponent(b))
             Halves(parts) == Parts(parts[1], parts[2])
         IN  Halves(Split(payloadEnc, RENAME_PAYLOAD_SEP))
  ELSE IF commandId \in COMMANDS_WITH_ROLE_NAME
    THEN LET Decoded(dp) ==
               [roleName |-> IF dp.ok THEN dp.val ELSE <<>>, newRoleName |-> <<>>]
         IN  Decoded(decodeURIComponent(payloadEnc))
  ELSE NoOptions

----------------------------------------------------------------------------
(* JSON.parse (ECMA-404 grammar), called at src/lib/groq.js:62.            *)
(* A parsed value is a record [kind, str, members]: kind is "object",      *)
(* "array", "string", "number", "true", "false" or "null"; str holds the   *)
(* code units of a string; members the <<key, value>> pairs of an object.  *)

JValue(kind, str, members) == [kind |-> kind, str |-> str, members |-> members]

ParseFail == [ok |-> FALSE, v |-> JValue("none", <<>>, <<>>), next |-> 0]
ParseOk(v, next) == [ok |-> TRUE, v |-> v, next |-> next]

\* JSON whitespace: space, tab, line feed, carriage return
IsJsonWs(c) == c \in {32, 9, 10, 13}
IsDigit(c) == c >= 48 /\ c <= 57

\* the first position >= i of s that holds no whitespace (Len(s) + 1 at the end)
RECURSIVE SkipWs(_, _)
SkipWs(s, i) ==
  IF i <= Len(s) /\ IsJsonWs(s[i]) THEN SkipWs(s, i + 1) ELSE i

\* the first position >= i of s that holds no digit
RECURSIVE DigitsEnd(_, _)
DigitsEnd(s, i) ==
  IF i <= Len(s) /\ IsDigit(s[i]) THEN DigitsEnd(s, i + 1) ELSE i

At(s, i) == IF i >= 1 /\ i <= Len(s) THEN s[i] ELSE -1

\* a number that starts at position i:  -? (0 | [1-9][0-9]*) (. [0-9]+)? ([eE] [+-]? [0-9]+)?
ParseNumber(s, i) ==
  LET p1 == IF At(s, i) = 45 THEN i + 1 ELSE i
      p2 == IF At(s, p1) = 48 THEN p1 + 1
            ELSE IF IsDigit(At(s, p1)) THEN DigitsEnd(s, p1)
            ELSE 0
      fracEnd == IF p2 > 0 /\ At(s, p2) = 46 THEN DigitsEnd(s, p2 + 1) ELSE p2
      fracOk == p2 > 0 /\ (At(s, p2) # 46 \/ fracEnd > p2 + 1)
      p3 == fracEnd
      hasExp == fracOk /\ At(s, p3) \in {101, 69}
      e1 == IF hasExp /\ At(s, p3 + 1) \in {43, 45} THEN p3 + 2 ELSE p3 + 1
      expEnd == IF hasExp THEN DigitsEnd(s, e1) ELSE p3
      expOk == ~hasExp \/ expEnd > e1
  IN  IF p2 = 0 \/ ~fracOk \/ ~expOk THEN ParseFail
      ELSE ParseOk(JValue("number", <<>>, <<>>), expEnd)

\* the characters of a string from position j on, up to its closing quote
RECURSIVE StringBody(_, _)
StringBody(s, j) ==
  IF j > Len(s) THEN [ok |-> FALSE, str |-> <<>>, next |-> 0]
  ELSE IF s[j] = 34 THEN [ok |-> TRUE, str |-> <<>>, next |-> j + 1]
  ELSE IF s[j] < 32 THEN [ok |-> FALSE, str |-> <<>>, next |-> 0]
  ELSE IF s[j] # 92
    THEN LET r == StringBody(s, j + 1)
         IN  [ok |-> r.ok, str |-> <<s[j]>> \o r.str, next |-> r.next]
  ELSE
    LET e == At(s, j + 1)
        simple == CASE e = 34 -> 34 [] e = 92 -> 92 [] e = 47 -> 47
                    [] e = 98 -> 8 [] e = 102 -> 12 [] e = 110 -> 10
                    [] e = 114 -> 13 [] e = 116 -> 9 [] OTHER -> -1
        hex == [k \in 1..4 |-> IF At(s, j + 1 + k) < 0 THEN -1
                               ELSE HexValue(At(s, j + 1 + k))]
    IN  IF simple >= 0
          THEN LET r == StringBody(s, j + 2)
               IN  [ok |-> r.ok, str |-> <<simple>> \o r.str, next |-> r.next]
        ELSE IF e = 117 /\ \A k \in 1..4 : hex[k] >= 0
          THEN LET r == StringBody(s, j + 6)
                   u == hex[1] * 4096 + hex[2] * 256 + hex[3] * 16 + hex[4]
               IN  [ok |-> r.ok, str |-> <<u>> \o r.str, next |-> r.next]
        ELSE [ok |-> FALSE, str |-> <<>>, next |-> 0]

\* a string whose opening quote is at position i
ParseString(s, i) ==
  LET Body(r) ==
        IF r.ok THEN ParseOk(JValue("string", r.str, <<>>), r.next) ELSE ParseFail
  IN  Body(StringBody(s, i + 1))

\* true, false or null at position i
ParseLiteral(s, i) ==
  LET word == CASE At(s, i) = 116 -> <<116,114,117,101>>
                [] At(s, i) = 102 -> <<102,97,108,115,101>>
                [] OTHER -> <<110,117,108,108>>
      kind == CASE At(s, i) = 116 -> "true" [] At(s, i) = 102 -> "false"
                [] OTHER -> "null"
  IN  IF i + Len(word) - 1 <= Len(s) /\ SubSeq(s, i, i + Len(word) - 1) = word
        THEN ParseOk(JValue(kind, <<>>, <<>>), i + Len(word))
        ELSE ParseFail

RECURSIVE ParseValue(_, _), ParseMembers(_, _), ParseElements(_, _)

\* the value that starts at or after position i (leading whitespace skipped)
ParseValue(s, i) ==
  LET Object(k) ==
        IF At(s, k) = 125 THEN ParseOk(JValue("object", <<>>, <<>>), k + 1)
        ELSE ParseMembers(s, k)
      Array(k) ==
        IF At(s, k) = 93 THEN ParseOk(JValue("array", <<>>, <<>>), k + 1)
        ELSE ParseElements(s, k)
      Value(j, c) ==
        IF c = 123 THEN Object(SkipWs(s, j + 1))
        ELSE IF c = 91 THEN Array(SkipWs(s, j + 1))
        ELSE IF c = 34 THEN ParseString(s, j)
        ELSE IF c = 45 \/ IsDigit(c) THEN ParseNumber(s, j)
        ELSE IF c \in {116, 102, 110} THEN ParseLiteral(s, j)
        ELSE ParseFail
      Start(j) == Value(j, At(s, j))
  IN  Start(SkipWs(s, i))

\* the members of an object from position j (at a key) to its closing brace
ParseMembers(s, j) ==
  IF At(s, j) # 34 THEN ParseFail
  ELSE
    LET More(key, val, rest) ==
          IF rest.ok
            THEN ParseOk(JValue("object", <<>>,
                                << <<key.v.str, val.v>> >> \o rest.v.members),
                         rest.next)
            ELSE ParseFail
        After(key, val, after) ==
          IF At(s, after) = 125
            THEN ParseOk(JValue("object", <<>>, << <<key.v.str, val.v>> >>), after + 1)
          ELSE IF At(s, after) = 44
            THEN More(key, val, ParseMembers(s, SkipWs(s, after + 1)))
          ELSE ParseFail
        Member(key, val) ==
          IF ~val.ok THEN ParseFail ELSE After(key, val, SkipWs(s, val.next))
        Colon(key, colon) ==
          IF At(s, colon) = 58 THEN Member(key, ParseValue(s, colon + 1))
          ELSE ParseFail
        Key(key) == IF key.ok THEN Colon(key, SkipWs(s, key.next)) ELSE ParseFail
    IN  Key(ParseString(s, j))

\* the elements of an array from position j to its closing bracket
ParseElements(s, j) ==
  LET After(after) ==
        IF At(s, after) = 93 THEN ParseOk(JValue("array", <<>>, <<>>), after + 1)
        ELSE IF At(s, after) = 44 THEN ParseElements(s, after + 1)
        ELSE ParseFail
      Element(val) == IF ~val.ok THEN ParseFail ELSE After(SkipWs(s, val.next))
  IN  Element(ParseValue(s, j))

\* JSON.parse(text): ok = FALSE when it throws SyntaxError
JsonParse(text) ==
  LET Whole(r) ==
        IF r.ok /\ SkipWs(text, r.next) = Len(text) + 1 THEN r ELSE ParseFail
  IN  Whole(ParseValue(text, 1))

\* value.reply for a parsed value that is not null: the last member named
\* 'reply' of an object; undefined (kind "none") when there is none, and for
\* every array, string, number and boolean
ReplyKey == <<114,101,112,108,121>>
GetReply(v) ==
  LET hits == {k \in 1..Len(v.members) : v.members[k][1] = ReplyKey}
  IN  IF v.kind # "object" \/ hits = {} THEN JValue("none", <<>>, <<>>)
      ELSE v.members[CHOOSE k \in hits : \A m \in hits : m <= k][2]

----------------------------------------------------------------------------
(* The intent decision engine, src/lib/groq.js:35-69 *)

\* escapeControlCharsInReplyValue with the three replacements left out
escapeNothing(raw) == raw

\* raw.replace(/\n/g, '\\n').replace(/\r/g, '\\r').replace(/\t/g, '\\t')
RECURSIVE escapeControlCharsInReplyValue(_)
escapeControlCharsInReplyValue(raw) ==
  IF raw = <<>> THEN <<>>
  ELSE (CASE Head(raw) = 10 -> <<92, 110>>
          [] Head(raw) = 13 -> <<92, 114>>
          [] Head(raw) = 9 -> <<92, 116>>
          [] OTHER -> <<Head(raw)>>)
       \o escapeControlCharsInReplyValue(Tail(raw))

\* what a call of the engine gives its caller: a returned value, or threw
Returned(reply) ==
  [threw |-> FALSE, reply |-> reply, adminCommand |-> <<>>,
   roleName |-> <<>>, newRoleName |-> <<>>]
Threw ==
  [threw |-> TRUE, reply |-> <<>>, adminCommand |-> <<>>,
   roleName |-> <<>>, newRoleName |-> <<>>]

\* a completion: the call of the completion service rejects (network error,
\* service error, missing credentials), or it resolves with a content that is
\* a string or missing
Rejects == [rejects |-> TRUE, missing |-> FALSE, content |-> <<>>]
NoContent == [rejects |-> FALSE, missing |-> TRUE, content |-> <<>>]
Content(text) == [rejects |-> FALSE, missing |-> FALSE, content |-> text]

\* ParseCompletion returning the parsed object's adminCommand along with its
\* reply, whoever the author is
ParseCompletionWithCommand(completion) ==
  LET AdminCommandKey == <<97,100,109,105,110,67,111,109,109,97,110,100>>
      Member(v, key) ==
        LET hits == {k \in 1..Len(v.members) : v.members[k][1] = key}
        IN  IF v.kind # "object" \/ hits = {} THEN JValue("none", <<>>, <<>>)
            ELSE v.members[CHOOSE k \in hits : \A m \in hits : m <= k][2]
      Str(v) == IF v.kind = "string" THEN v.str ELSE <<>>
      Parsed(data) ==
        IF ~data.ok THEN Returned(<<>>)
        ELSE IF data.v.kind = "null" THEN Threw
        ELSE [Returned(Str(Member(data.v, ReplyKey)))
                EXCEPT !.adminCommand = Str(Member(data.v, AdminCommandKey))]
      Trimmed(content) ==
        IF completion.missing \/ content = <<>> THEN Returned(<<>>)
        ELSE Parsed(JsonParse(escapeControlCharsInReplyValue(content)))
  IN  Trimmed(Trim(completion.content))

\* lines 56-68: from the completion's content to the returned object
ParseCompletion(completion) ==
  LET Reply(reply) ==
        IF reply.kind = "string" THEN Returned(reply.str) ELSE Returned(<<>>)
      Parsed(data) ==
        IF ~data.ok THEN Returned(<<>>)
        ELSE IF data.v.kind = "null" THEN Threw   \* TypeError reading data.reply
        ELSE Reply(GetReply(data.v))
      Trimmed(content) ==
        IF completion.missing \/ content = <<>> THEN Returned(<<>>)
        ELSE Parsed(JsonParse(escapeControlCharsInReplyValue(content)))
  IN  Trimmed(Trim(completion.content))

\* shouldRespondAndReply(context): the await of the completion call at lines
\* 49-54 stands outside every try, so a rejection leaves the function
shouldRespondAndReply(completion, isAdmin) ==
  IF completion.rejects THEN Threw ELSE ParseCompletion(completion)

----------------------------------------------------------------------------
(* The confirmation protocol as a state machine                            *)

VARIABLES
  \* the confirmation protocol
  admins,      \* the members holding the Administrator permission now
  nMsg,        \* number of MessageCreate events delivered so far
  lastMsg,     \* the message handled last: its Decision and what was sent
  controls,    \* the confirmation controls that exist on the platform
  nAct,        \* number of InteractionCreate events delivered so far
  acts,        \* the bag of activation-handling tasks in flight
  last,        \* the activation-handling task that ended last
  invocations, \* number of calls of a registry handler made so far
  \* one message handled with the engine of src/lib/groq.js
  input,         \* what the completion service does for the message
  authorIsAdmin, \* isServerAdmin(message), passed to the engine as isAdmin
  result,        \* what shouldRespondAndReply gave its caller
  sent,          \* what the MessageCreate handler sent for it
  incoming,      \* the message event: its author, its reference, the channel
  context,       \* what buildConversationMessages gave the handler
  calls,         \* number of calls of the completion service made
  pcE,           \* "start", "ignored" (the author is a bot), "crashed" (the
                 \* context could not be built), "context", "decided",
                 \* "rejected" (the engine threw), "done"
  \* one confirmation token, from the Decision to the decoded options
  tokD,        \* the Decision
  tokUsers,    \* the usernames of the users the triggering message mentions
  tokOut,      \* what message handling sent for it (the control and its customId)
  tokOpt,      \* the activation's decoding of the customId
  tokRun,      \* what the handler did with the decoded options
  tokIn,       \* what the handler was run on: the original message, the
               \* users it mentions (or the members of the voice channel),
               \* and whether the handler's one call (or lookup) succeeds
  pcT,         \* "start", "built", "decoded", "ran"
  \* the messages of one channel and the tasks that handle them
  store,       \* the messages of the channel, in the order of their creation
  handling     \* the MessageCreate tasks, by the id of their message

protocolVars == <<admins, nMsg, lastMsg, controls, nAct, acts, last, invocations>>
engineVars == <<input, authorIsAdmin, incoming, context, calls, result, sent, pcE>>
tokenVars == <<tokD, tokUsers, tokOut, tokOpt, tokRun, tokIn, pcT>>
handlingVars == <<store, handling>>
vars == <<protocolVars, engineVars, tokenVars, handlingVars>>

\* guild.ownerId, and the members that activate controls
Owner == "owner"
Members == {"owner", "alice"}

\* The value message handling destructures at part_001:122:
\*   const { reply, adminCommand, roleName, newRoleName } = await ...
Decision(reply, adminCommand, roleName, newRoleName) ==
  [reply |-> reply, adminCommand |-> adminCommand,
   roleName |-> roleName, newRoleName |-> newRoleName]

NoDecision == Decision(<<>>, <<>>, <<>>, <<>>)

\* 'ok'
ReplyText == <<111,107>>
\* 'bogus': a command id that is neither registered nor an inherited key
UnknownId == <<98,111,103,117,115>>
\* 'constructor': a key ADMIN_COMMANDS inherits from Object.prototype
InheritedId == <<99,111,110,115,116,114,117,99,116,111,114>>
\* 'Mods'
SomeRole == <<77,111,100,115>>
\* 'bob': the username of the user the triggering messages mention
MentionedUsers == << <<98,111,98>> >>

Decisions ==
  { NoDecision,
    Decision(<<32>>, kickUser, <<>>, <<>>),
    Decision(ReplyText, <<>>, <<>>, <<>>),
    Decision(ReplyText, createRole, SomeRole, <<>>),
    Decision(ReplyText, UnknownId, <<>>, <<>>),
    Decision(ReplyText, InheritedId, <<>>, <<>>) }

\* customIds of interactions that no control of this process carries: controls
\* outlive the process that rendered them, and the platform delivers every
\* component interaction of the application to the handler
OtherCustomIds ==
  { ADMIN_CONFIRM_PREFIX \o UnknownId,
    ADMIN_CONFIRM_PREFIX \o InheritedId,
    <<111,116,104,101,114,58,98,117,116,116,111,110>>,  \* 'other:button'
    ADMIN_CONFIRM_PREFIX \o createRole \o ADMIN_PAYLOAD_SEP \o <<37,69,50,37,56>> }

\* a task that returned before doing anything (lines 162, 169)
IgnoredTask(user, customId) ==
  [user |-> user, customId |-> customId, cmd |-> Null, options |-> NoOptions,
   ref |-> 0, hadPermission |-> FALSE, pc |-> "ignored", ackCalled |-> FALSE,
   original |-> 0, invoked |-> FALSE, out |-> <<>>,
   err |-> <<>>, followUp |-> <<>>, prev |-> "none"]

\* no task has ended yet
NoTask == [IgnoredTask(Owner, <<>>) EXCEPT !.pc = "none"]

\* no message has been handled yet
NoMessage ==
  [id |-> 0, isBot |-> FALSE, d |-> NoDecision, sendOk |-> FALSE,
   out |-> NothingSent("none")]

ProtocolInit ==
  /\ admins = {}
  /\ nMsg = 0
  /\ lastMsg = NoMessage
  /\ controls = {[customId |-> c, ref |-> 0] : c \in OtherCustomIds}
  /\ nAct = 0
  /\ acts = EmptyBag
  /\ last = NoTask
  /\ invocations = 0

\* the platform grants or revokes the Administrator permission of a member
SetAdministrator(u) ==
  /\ u # Owner
  /\ admins' = IF u \in admins THEN admins \ {u} ELSE admins \cup {u}
  /\ UNCHANGED <<nMsg, lastMsg, controls, nAct, acts, last, invocations, engineVars, tokenVars, handlingVars>>

\* MessageCreate, part_001:115-159, for a message of a user (line 116 passed).
\* d: the Decision the engine returns; sendOk: whether message.reply succeeds
MessageCreate(d, sendOk) ==
  /\ nMsg < MaxMessages
  /\ nMsg' = nMsg + 1
  /\ LET Handled(id, out) ==
           /\ lastMsg' = [id |-> id, isBot |-> FALSE, d |-> d, sendOk |-> sendOk,
                          out |-> out]
           /\ controls' = IF out.kind = "control"
                            THEN controls \cup {[customId |-> out.customId, ref |-> id]}
                            ELSE controls
     IN  Handled(nMsg + 1, HandleDecision(d, MentionedUsers, <<>>, sendOk))
  /\ UNCHANGED <<admins, nAct, acts, last, invocations, engineVars, tokenVars, handlingVars>>

\* MessageCreate for a message whose author is a bot: line 116 returns
MessageCreateFromBot ==
  /\ nMsg < MaxMessages
  /\ nMsg' = nMsg + 1
  /\ lastMsg' = [id |-> nMsg + 1, isBot |-> TRUE, d |-> NoDecision,
                 sendOk |-> FALSE, out |-> NothingSent("ignored")]
  /\ UNCHANGED <<admins, controls, nAct, acts, last, invocations, engineVars, tokenVars, handlingVars>>

\* IsAdminCheck with the check left out: every activator passes
IsAdminCheckSkipped(memberResolved, isOwner, hasAdministrator) == TRUE

\* IsAdminCheck with the Administrator permission left out: only the owner passes
IsAdminCheckOwnerOnly(memberResolved, isOwner, hasAdministrator) ==
  memberResolved /\ isOwner

\* lines 186-190: member && (guild.ownerId === user.id ||
\*                           member.permissions.has(Administrator))
\* isOwner: guild.ownerId === interaction.user.id; hasAdministrator: the
\* member's Administrator permission
IsAdminCheck(memberResolved, isOwner, hasAdministrator) ==
  memberResolved /\ (isOwner \/ hasAdministrator)

\* lines 171-184: some decodeURIComponent call of the options decoding throws
PayloadDecodeFails(commandId, payloadEnc) ==
  /\ payloadEnc # <<>>
  /\ IF commandId = COMMAND_RENAME_ROLE /\ Includes(payloadEnc, RENAME_PAYLOAD_SEP)
       THEN LET Fails(a, b) ==
                  \/ a # <<>> /\ ~decodeURIComponent(a).ok
                  \/ b # <<>> /\ ~decodeURIComponent(b).ok
                Halves(parts) == Fails(parts[1], parts[2])
            IN  Halves(Split(payloadEnc, RENAME_PAYLOAD_SEP))
       ELSE /\ commandId \in COMMANDS_WITH_ROLE_NAME
            /\ ~decodeURIComponent(payloadEnc).ok

\* StartTask without the try/catch of lines 173-183: an exception of
\* decodeURIComponent rejects the handler before the permission check
StartTaskDecodeThrows(user, isButton, ctl, adminsNow) ==
  IF ~isButton \/ ~StartsWith(ctl.customId, ADMIN_CONFIRM_PREFIX)
    THEN IgnoredTask(user, ctl.customId)
  ELSE
    LET Started(parsed, cmd, isAdmin, fails) ==
          IF ~Truthy(cmd) THEN IgnoredTask(user, ctl.customId)
          ELSE [user |-> user, customId |-> ctl.customId, cmd |-> cmd,
                options |-> DecodeOptions(parsed.commandId, parsed.payloadEnc),
                ref |-> ctl.ref,
                hadPermission |-> user \in adminsNow,
                pc |-> IF fails THEN "crashed" ELSE IF isAdmin THEN "defer" ELSE "done",
                ackCalled |-> isAdmin /\ ~fails,
                original |-> 0, invoked |-> FALSE,
                out |-> IF isAdmin \/ fails THEN <<>> ELSE <<"noperm">>,
                err |-> <<>>, followUp |-> <<>>, prev |-> "none"]
        Parsed(parsed) ==
          Started(parsed, getAdminCommand(parsed.commandId),
                  IsAdminCheck(TRUE, user = Owner, user \in adminsNow),
                  PayloadDecodeFails(parsed.commandId, parsed.payloadEnc))
    IN  Parsed(ParseCustomId(ctl.customId))

\* StartTask without line 199: the authorized task goes on to resolve the
\* original message without having called deferUpdate
StartTaskUnacknowledged(user, isButton, ctl, adminsNow) ==
  IF ~isButton \/ ~StartsWith(ctl.customId, ADMIN_CONFIRM_PREFIX)
    THEN IgnoredTask(user, ctl.customId)
  ELSE
    LET Started(parsed, cmd, isAdmin) ==
          IF ~Truthy(cmd) THEN IgnoredTask(user, ctl.customId)
          ELSE [user |-> user, customId |-> ctl.customId, cmd |-> cmd,
                options |-> DecodeOptions(parsed.commandId, parsed.payloadEnc),
                ref |-> ctl.ref,
                hadPermission |-> user \in adminsNow,
                pc |-> IF isAdmin THEN "fetch" ELSE "done",
                ackCalled |-> FALSE,
                original |-> 0, invoked |-> FALSE,
                out |-> IF isAdmin THEN <<>> ELSE <<"noperm">>,
                err |-> <<>>, followUp |-> <<>>, prev |-> "none"]
        Parsed(parsed) ==
          Started(parsed, getAdminCommand(parsed.commandId),
                  IsAdminCheck(TRUE, user = Owner, user \in adminsNow))
    IN  Parsed(ParseCustomId(ctl.customId))

\* lines 162-199, the synchronous part of the InteractionCreate handler up to
\* its first await: decode the token, re-authorize, then either reply "no
\* permission" or call deferUpdate
StartTask(user, isButton, ctl, adminsNow) ==
  IF ~isButton \/ ~StartsWith(ctl.customId, ADMIN_CONFIRM_PREFIX)
    THEN IgnoredTask(user, ctl.customId)
  ELSE
    LET Started(parsed, cmd, isAdmin) ==
          IF ~Truthy(cmd) THEN IgnoredTask(user, ctl.customId)
          ELSE [user |-> user, customId |-> ctl.customId, cmd |-> cmd,
                options |-> DecodeOptions(parsed.commandId, parsed.payloadEnc),
                ref |-> ctl.ref,
                hadPermission |-> user \in adminsNow,
                pc |-> IF isAdmin THEN "defer" ELSE "done",
                ackCalled |-> isAdmin,
                original |-> 0, invoked |-> FALSE,
                out |-> IF isAdmin THEN <<>> ELSE <<"noperm">>,
                err |-> <<>>, followUp |-> <<>>, prev |-> "none"]
        Parsed(parsed) ==
          Started(parsed, getAdminCommand(parsed.commandId),
                  IsAdminCheck(TRUE, user = Owner, user \in adminsNow))
    IN  Parsed(ParseCustomId(ctl.customId))

\* what the task that ended last did with the control ctl: "rejected" (the
\* "no permission" reply), "dispatched" (its handler was called), else "none".
\* The handler reads none of this; a task carries it as prev for the record
PrevOf(ctl) ==
  IF last.pc = "done" /\ last.customId = ctl.customId /\ last.ref = ctl.ref
    THEN IF last.invoked THEN "dispatched"
         ELSE IF last.out = <<"noperm">> THEN "rejected"
         ELSE "none"
  ELSE "none"

\* Activate with a rejection that disables the control: the control is gone
\* after a "no permission" reply
ActivateBurning(user, ctl) ==
  /\ nAct < MaxActivations
  /\ nAct' = nAct + 1
  /\ LET Started(t) ==
           /\ IF t.pc = "defer"
                THEN acts' = acts (+) SetToBag({t}) /\ last' = last
                ELSE acts' = acts /\ last' = t
           /\ controls' = IF t.out = <<"noperm">> THEN controls \ {ctl} ELSE controls
     IN  Started([StartTask(user, TRUE, ctl, admins) EXCEPT !.prev = PrevOf(ctl)])
  /\ UNCHANGED <<admins, nMsg, lastMsg, invocations, engineVars, tokenVars, handlingVars>>

\* Activate with at-most-once bookkeeping: a control whose handler has been
\* called is ignored from then on
ActivateOnce(user, ctl) ==
  /\ nAct < MaxActivations
  /\ nAct' = nAct + 1
  /\ LET Started(t) ==
           IF t.pc = "defer"
             THEN acts' = acts (+) SetToBag({t}) /\ last' = last
             ELSE acts' = acts /\ last' = t
     IN  Started([(IF PrevOf(ctl) = "dispatched" THEN IgnoredTask(user, ctl.customId)
                   ELSE StartTask(user, TRUE, ctl, admins))
                  EXCEPT !.prev = PrevOf(ctl)])
  /\ UNCHANGED <<admins, nMsg, lastMsg, controls, invocations, engineVars, tokenVars, handlingVars>>

\* InteractionCreate: a member activates a control
Activate(user, ctl) ==
  /\ nAct < MaxActivations
  /\ nAct' = nAct + 1
  /\ LET Started(t) ==
           IF t.pc = "defer"
             THEN acts' = acts (+) SetToBag({t}) /\ last' = last
             ELSE acts' = acts /\ last' = t
     IN  Started([StartTask(user, TRUE, ctl, admins) EXCEPT !.prev = PrevOf(ctl)])
  /\ UNCHANGED <<admins, nMsg, lastMsg, controls, invocations, engineVars, tokenVars, handlingVars>>

\* InteractionCreate for an interaction that is no button (line 162 returns)
OtherInteraction(user) ==
  /\ nAct < MaxActivations
  /\ nAct' = nAct + 1
  /\ last' = StartTask(user, FALSE, [customId |-> <<>>, ref |-> 0], admins)
  /\ UNCHANGED <<admins, nMsg, lastMsg, controls, acts, invocations, engineVars, tokenVars, handlingVars>>

\* line 199: deferUpdate resolves, or rejects (the rejection is not caught and
\* ends the task)
Acknowledge(t, ok) ==
  /\ BagIn(t, acts) /\ t.pc = "defer"
  /\ IF ok
       THEN /\ acts' = (acts (-) SetToBag({t})) (+) SetToBag({[t EXCEPT !.pc = "fetch"]})
            /\ last' = last
       ELSE /\ acts' = acts (-) SetToBag({t})
            /\ last' = [t EXCEPT !.pc = "crashed"]
  /\ UNCHANGED <<admins, nMsg, lastMsg, controls, nAct, invocations, engineVars, tokenVars, handlingVars>>

\* the id of the message that carries the control rendered as the reply to
\* message ref (part_001:150); the controls of other processes share id 100
ControlMessageId(ref) == 100 + ref

\* getOriginalMessage, src/lib/groq.js:81-89: the message the control's message
\* replies to, null (0) when there is no reference or the fetch fails
getOriginalMessage(ref, fetchOk) == IF ref = 0 \/ ~fetchOk THEN 0 ELSE ref

\* line 201
ResolveOriginal(t, fetchOk) ==
  /\ BagIn(t, acts) /\ t.pc = "fetch"
  /\ acts' = (acts (-) SetToBag({t})) (+)
             SetToBag({[t EXCEPT !.pc = "handler",
                                 !.original = getOriginalMessage(t.ref, fetchOk)]})
  /\ UNCHANGED <<admins, nMsg, lastMsg, controls, nAct, last, invocations,
                 engineVars, tokenVars, handlingVars>>

\* err.message of what a privileged call rejects with ('Missing Permissions',
\* the message of the platform's error 50013), and of the TypeError of
\* calling the handler of an inherited property
MissingPermissions == <<77,105,115,115,105,110,103,32,80,101,114,109,105,115,115,105,111,110,115>>
NotAFunction == <<99,109,100,46,104,97,110,100,108,101,114,32,105,115,32,110,111,116,32,97,32,102,117,110,99,116,105,111,110>>

\* line 207: `Failed: ${err.message}`
FailedPrefix == <<70,97,105,108,101,100,58,32>>
FailureMessage(message) == FailedPrefix \o message

\* err.message of what the call of line 204 throws, <<>> when it returns
ThrownBy(cmd, handlerThrows) ==
  IF cmd.kind # "entry" THEN NotAFunction
  ELSE IF handlerThrows THEN MissingPermissions
  ELSE <<>>

\* Dispatch without the try/catch of lines 203-210: what the handler throws
\* rejects the InteractionCreate handler
DispatchUncaught(t, handlerThrows) ==
  /\ BagIn(t, acts) /\ t.pc = "handler"
  /\ LET Called(isEntry, err) ==
           /\ acts' = acts (-) SetToBag({t})
           /\ last' = [t EXCEPT !.pc = IF err # <<>> THEN "crashed" ELSE "done",
                                !.invoked = isEntry,
                                !.out = IF err # <<>> THEN t.out
                                        ELSE t.out \o <<"outcome">>,
                                !.err = err]
           /\ invocations' = IF isEntry THEN invocations + 1 ELSE invocations
     IN  Called(t.cmd.kind = "entry", ThrownBy(t.cmd, handlerThrows))
  /\ UNCHANGED <<admins, nMsg, lastMsg, controls, nAct, engineVars, tokenVars, handlingVars>>

\* lines 203-210: cmd.handler(interaction, originalMessage, options) returns or
\* throws; an inherited property has no handler, so calling it throws.  What
\* is thrown is caught and reported with followUp
Dispatch(t, handlerThrows) ==
  /\ BagIn(t, acts) /\ t.pc = "handler"
  /\ LET Called(isEntry, err) ==
           /\ acts' = acts (-) SetToBag({t})
           /\ last' = [t EXCEPT !.pc = "done", !.invoked = isEntry,
                                !.out = IF err # <<>> THEN t.out \o <<"failed">>
                                        ELSE t.out \o <<"outcome">>,
                                !.err = err,
                                !.followUp = IF err # <<>> THEN FailureMessage(err)
                                             ELSE <<>>]
           /\ invocations' = IF isEntry THEN invocations + 1 ELSE invocations
     IN  Called(t.cmd.kind = "entry", ThrownBy(t.cmd, handlerThrows))
  /\ UNCHANGED <<admins, nMsg, lastMsg, controls, nAct, engineVars, tokenVars, handlingVars>>

Tasks == BagToSet(acts)

ProtocolNext ==
  \/ \E u \in Members : SetAdministrator(u)
  \/ \E d \in Decisions, sendOk \in BOOLEAN : MessageCreate(d, sendOk)
  \/ MessageCreateFromBot
  \/ \E u \in Members, ctl \in controls : Activate(u, ctl)
  \/ \E u \in Members : OtherInteraction(u)
  \/ \E t \in Tasks, ok \in BOOLEAN : Acknowledge(t, ok)
  \/ \E t \in Tasks, fetchOk \in BOOLEAN : ResolveOriginal(t, fetchOk)
  \/ \E t \in Tasks, handlerThrows \in BOOLEAN : Dispatch(t, handlerThrows)


----------------------------------------------------------------------------
(* One message handled with the engine of src/lib/groq.js                  *)

\* longest reply (in code units) of the completions drawn
MaxReplyLen == 2

SeqsUpTo(A, n) == UNION {[1..k -> A] : k \in 0..n}

\* the reply texts of the completions: 'a', line feed, carriage return, tab,
\* the double quote and the backslash
ReplyAlphabet == {97, 10, 13, 9, 34, 92}
Replies == SeqsUpTo(ReplyAlphabet, MaxReplyLen)

\* the JSON string literal of r, without its quotes.  rawControls: the line
\* feeds, carriage returns and tabs are written as they are, not escaped
RECURSIVE Serialize(_, _)
Serialize(r, rawControls) ==
  IF r = <<>> THEN <<>>
  ELSE (CASE Head(r) = 34 -> <<92, 34>>
          [] Head(r) = 92 -> <<92, 92>>
          [] Head(r) = 10 /\ ~rawControls -> <<92, 110>>
          [] Head(r) = 13 /\ ~rawControls -> <<92, 114>>
          [] Head(r) = 9 /\ ~rawControls -> <<92, 116>>
          [] OTHER -> <<Head(r)>>)
       \o Serialize(Tail(r), rawControls)

\* "reply":"..."
ReplyMember(r, rawControls, gap) ==
  <<34>> \o ReplyKey \o <<34, 58>> \o gap \o <<34>> \o Serialize(r, rawControls) \o <<34>>

\* {"reply":"..."} on one line
CompactObject(r, rawControls) == <<123>> \o ReplyMember(r, rawControls, <<>>) \o <<125>>

\* the same object pretty-printed: ws between the braces and the member
PrettyObject(r, ws) == <<123>> \o ws \o ReplyMember(r, FALSE, <<32>>) \o ws \o <<125>>

\* 'hi'
Hi == <<104,105>>

\* the inputs: form says how the completion text was made, reply the reply of
\* the JSON object it holds (for the forms that hold one)
Input(form, reply, rawControls, completion) ==
  [form |-> form, reply |-> reply, rawControls |-> rawControls,
   completion |-> completion]

Inputs ==
  { Input("rejects", <<>>, FALSE, Rejects), Input("missing", <<>>, FALSE, NoContent) }
  \cup { Input("compact", r, raw, Content(CompactObject(r, raw))) :
           r \in Replies, raw \in BOOLEAN }
  \cup { Input("pretty", Hi, FALSE, Content(PrettyObject(Hi, ws))) :
           ws \in {<<32>>, <<10>>, <<13, 10>>, <<10, 9>>} }
  \cup { Input("wrapped", Hi, FALSE, Content(pre \o CompactObject(Hi, FALSE) \o post)) :
           pre \in {<<>>, <<83,117,114,101,58,32>>, <<96,96,96,106,115,111,110,10>>},
           post \in {<<>>, <<32,111,107>>, <<10,96,96,96>>} }
  \cup { Input("truncated", Hi, FALSE, Content(SubSeq(CompactObject(Hi, FALSE), 1, k))) :
           k \in 0..(Len(CompactObject(Hi, FALSE)) - 1) }
  \cup { Input("other", <<>>, FALSE, Content(text)) :
           text \in {
             <<110,117,108,108>>,
             <<49>>,
             <<45,49,46,53,101,51>>,
             <<91,93>>,
             <<91,34,114,101,112,108,121,34,93>>,
             <<34,114,101,112,108,121,34>>,
             <<116,114,117,101>>,
             <<102,97,108,115,101>>,
             <<123,125>>,
             <<123,34,114,101,112,108,121,34,58,49,125>>,
             <<123,34,114,101,112,108,121,34,58,110,117,108,108,125>>,
             <<123,34,114,101,112,108,121,34,58,91,34,104,105,34,93,125>>,
             <<32,32,32>> } }
  \cup { Input("command", ReplyText, FALSE, Content(text)) :
           text \in {
             <<123,34,114,101,112,108,121,34,58,34,111,107,34,44,34,97,100,109,105,110,67,111,109,109,97,110,100,34,58,34,107,105,99,107,85,115,101,114,34,125>>,
             <<123,34,97,100,109,105,110,67,111,109,109,97,110,100,34,58,34,99,114,101,97,116,101,82,111,108,101,34,44,34,114,111,108,101,78,97,109,101,34,58,34,77,111,100,115,34,44,34,114,101,112,108,121,34,58,34,111,107,34,125>>,
             <<123,34,114,101,112,108,121,34,58,34,110,111,34,44,34,114,101,112,108,121,34,58,34,111,107,34,125>> } }

\* the id of client.user, and the authors of the channel's messages: the bot,
\* a member, another bot
BotId == "bot"

\* the channel's messages in the order of their creation, oldest first; with
\* ties, two consecutive messages share a createdTimestamp
Channel(n, ties) ==
  [k \in 1..n |->
     [id |-> k,
      createdTimestamp |-> IF ties THEN (k + 1) \div 2 ELSE k,
      author |-> IF k % 3 = 0 THEN BotId ELSE IF k % 3 = 1 THEN "alice" ELSE "otherbot"]]

\* message.reference and what fetching the referenced message gives:
\* messageId 0 stands for no reference
Reference(messageId, fetchOk, author) ==
  [messageId |-> messageId, fetchOk |-> fetchOk, author |-> author]
NoReference == Reference(0, TRUE, "alice")

\* a message event: whether its author is a bot, the messages of its
\* channel (the new message is the newest of them), whether fetching the
\* channel's history succeeds, and the new message's reference
Incoming(authorIsBot, channel, fetchOk, reference) ==
  [authorIsBot |-> authorIsBot, channel |-> channel, fetchOk |-> fetchOk,
   reference |-> reference]

\* a message of a member in a channel of three messages, no reply
PlainIncoming == Incoming(FALSE, Channel(3, FALSE), TRUE, NoReference)

Incomings ==
  { Incoming(isBot, Channel(n, ties), fetchOk, reference) :
      isBot \in BOOLEAN, n \in 0..MaxHistory, ties \in BOOLEAN, fetchOk \in BOOLEAN,
      reference \in { NoReference, Reference(1, TRUE, BotId),
                      Reference(1, FALSE, BotId), Reference(1, TRUE, "alice") } }

\* channel.messages.fetch({ limit }): the store gives the limit most recent
\* messages of the channel, newest first
FetchRecent(channel, limit) ==
  [k \in 1..Min(Len(channel), limit) |-> channel[Len(channel) + 1 - k]]

\* [...messages.values()].sort((a, b) => a.createdTimestamp - b.createdTimestamp):
\* Array.prototype.sort is stable, equal timestamps keep their order
SortByCreated(msgs) ==
  LET Rank(i) ==
        1 + Cardinality({j \in 1..Len(msgs) :
                           \/ msgs[j].createdTimestamp < msgs[i].createdTimestamp
                           \/ /\ msgs[j].createdTimestamp = msgs[i].createdTimestamp
                              /\ j < i})
  IN  [k \in 1..Len(msgs) |-> msgs[CHOOSE i \in 1..Len(msgs) : Rank(i) = k]]

\* isReplyToBot without its try/catch: a failing fetch of the referenced
\* message is thrown to the caller
isReplyToBotUncaught(reference) ==
  IF reference.messageId = 0 THEN [threw |-> FALSE, value |-> FALSE]
  ELSE IF ~reference.fetchOk THEN [threw |-> TRUE, value |-> FALSE]
  ELSE [threw |-> FALSE, value |-> reference.author = BotId]

\* isReplyToBot(message), src/index.js:87-100
isReplyToBot(reference) ==
  IF reference.messageId = 0 THEN [threw |-> FALSE, value |-> FALSE]
  ELSE IF ~reference.fetchOk THEN [threw |-> FALSE, value |-> FALSE]
  ELSE [threw |-> FALSE, value |-> reference.author = BotId]

NoContext == [threw |-> FALSE, turns |-> <<>>, replyToBot |-> FALSE]

\* buildConversationMessages with the turns left in the order of the store
buildConversationMessagesUnsorted(channel, newMessage, botId) ==
  IF ~newMessage.fetchOk THEN [NoContext EXCEPT !.threw = TRUE]
  ELSE
    LET Built(sorted, reply) ==
          IF reply.threw THEN [NoContext EXCEPT !.threw = TRUE]
          ELSE [threw |-> FALSE,
                turns |-> [k \in 1..Len(sorted) |->
                             [role |-> IF sorted[k].author = botId THEN "assistant"
                                       ELSE "user",
                              of |-> sorted[k].id]],
                replyToBot |-> reply.value]
    IN  Built(FetchRecent(channel, RECENT_MESSAGES_LIMIT),
              isReplyToBot(newMessage.reference))

\* buildConversationMessages(channel, newMessage, botId), src/index.js:111-131;
\* the fetch of the history is awaited outside every try.  A turn is
\* {role, content: formatMessage(msg)}; `of` names the message msg
buildConversationMessages(channel, newMessage, botId) ==
  IF ~newMessage.fetchOk THEN [NoContext EXCEPT !.threw = TRUE]
  ELSE
    LET Built(sorted, reply) ==
          IF reply.threw THEN [NoContext EXCEPT !.threw = TRUE]
          ELSE [threw |-> FALSE,
                turns |-> [k \in 1..Len(sorted) |->
                             [role |-> IF sorted[k].author = botId THEN "assistant"
                                       ELSE "user",
                              of |-> sorted[k].id]],
                replyToBot |-> reply.value]
    IN  Built(SortByCreated(FetchRecent(channel, RECENT_MESSAGES_LIMIT)),
              isReplyToBot(newMessage.reference))

\* the completions are drawn for one message event, and the message events
\* for one completion
EngineInit ==
  /\ input \in Inputs
  /\ incoming \in Incomings
  /\ input = Input("pretty", Hi, FALSE, Content(PrettyObject(Hi, <<32>>)))
     \/ incoming = PlainIncoming
  /\ authorIsAdmin \in BOOLEAN
  /\ context = NoContext
  /\ calls = 0
  /\ result = Returned(<<>>)
  /\ sent = NothingSent("none")
  /\ pcE = "start"

\* src/index.js:167-176: a message of a bot is ignored; for any other the
\* context is built, and when that throws the handler's promise rejects
BuildContext ==
  /\ pcE = "start"
  /\ IF incoming.authorIsBot
       THEN context' = context /\ pcE' = "ignored"
       ELSE /\ context' = buildConversationMessages(incoming.channel, incoming, BotId)
            /\ pcE' = IF context'.threw THEN "crashed" ELSE "context"
  /\ UNCHANGED <<input, authorIsAdmin, incoming, calls, result, sent,
                 protocolVars, tokenVars, handlingVars>>

\* part_001:122: await shouldRespondAndReply({conversation, botName, isAdmin});
\* when it throws, the handler's promise rejects and nothing is sent
CallEngine ==
  /\ pcE = "context"
  /\ calls' = calls + 1
  /\ result' = shouldRespondAndReply(input.completion, authorIsAdmin)
  /\ pcE' = IF result'.threw THEN "rejected" ELSE "decided"
  /\ UNCHANGED <<input, authorIsAdmin, incoming, context, sent, protocolVars, tokenVars, handlingVars>>

\* part_001:128-158 for the Decision the engine returned
ReplyToMessage(sendOk) ==
  /\ pcE = "decided"
  /\ sent' = HandleDecision(Decision(result.reply, result.adminCommand,
                                     result.roleName, result.newRoleName),
                            MentionedUsers, <<>>, sendOk)
  /\ pcE' = "done"
  /\ UNCHANGED <<input, authorIsAdmin, incoming, context, calls, result,
                 protocolVars, tokenVars, handlingVars>>

EngineNext ==
  \/ BuildContext
  \/ CallEngine
  \/ \E sendOk \in BOOLEAN : ReplyToMessage(sendOk)

----------------------------------------------------------------------------
(* Role resolution and the renameRole handler, src/lib/groq.js:110-119 and *)
(* :248-282                                                                *)

\* c.toLowerCase() for the code units of the role names drawn
ToLowerCase(s) == [k \in 1..Len(s) |-> IF s[k] >= 65 /\ s[k] <= 90 THEN s[k] + 32 ELSE s[k]]

Role(name, managed) == [name |-> name, managed |-> managed]
NoRole == Role(<<>>, FALSE)

\* guild.roles.cache, in order: '@everyone', 'a', 'Mods', 'Bot' (managed by
\* an integration), and 'eve'
GuildRoles ==
  << Role(<<64,101,118,101,114,121,111,110,101>>, FALSE),
     Role(<<97>>, FALSE),
     Role(<<77,111,100,115>>, FALSE),
     Role(<<66,111,116>>, TRUE),
     Role(<<101,118,101>>, FALSE) >>

\* cache.find(pred), given the positions of the roles that satisfy pred: the
\* first of them, NoRole for undefined
FindRole(hits) ==
  IF hits = {} THEN NoRole
  ELSE GuildRoles[CHOOSE k \in hits : \A m \in hits : k <= m]

\* the lookup with the substring match alone
findRoleByNamePartialOnly(name) ==
  IF name = <<>> THEN NoRole
  ELSE LET Found(normalized) ==
             FindRole({k \in 1..Len(GuildRoles) :
                         Includes(ToLowerCase(GuildRoles[k].name), normalized)})
       IN  Found(ToLowerCase(Trim(name)))

\* findRoleByName(guild, name): exact match first, then substring match
findRoleByName(name) ==
  IF name = <<>> THEN NoRole
  ELSE LET Found(normalized) ==
             LET OrPartial(exact) ==
                   IF exact # NoRole THEN exact
                   ELSE FindRole({k \in 1..Len(GuildRoles) :
                                    Includes(ToLowerCase(GuildRoles[k].name), normalized)})
             IN  OrPartial(FindRole({k \in 1..Len(GuildRoles) :
                                       ToLowerCase(GuildRoles[k].name) = normalized}))
       IN  Found(ToLowerCase(Trim(name)))

\* the original message as the handlers read it: null (exists = FALSE), or a
\* message with the first role it mentions (NoRole when it mentions none)
OriginalMessage(exists, roleMention) == [exists |-> exists, roleMention |-> roleMention]

OriginalMessages ==
  { OriginalMessage(FALSE, NoRole), OriginalMessage(TRUE, NoRole),
    OriginalMessage(TRUE, GuildRoles[3]), OriginalMessage(TRUE, GuildRoles[4]) }

\* what a handler call did, as far as the role is concerned
HandlerOutcome(kind, role, newName) == [kind |-> kind, role |-> role, newName |-> newName]
NotRun == HandlerOutcome("none", NoRole, <<>>)

\* renameRole.handler(interaction, originalMessage, options); editOk tells
\* whether role.edit resolves.  getFirstMentionedRole reads message.mentions,
\* which throws TypeError when the message is null
renameRoleHandler(originalMessage, options, editOk) ==
  IF ~originalMessage.exists THEN HandlerOutcome("threw", NoRole, <<>>)
  ELSE
    LET Rename(role, newName) ==
          IF role = NoRole THEN HandlerOutcome("needRole", NoRole, <<>>)
          ELSE IF newName = <<>> THEN HandlerOutcome("needNewName", role, <<>>)
          ELSE IF role.managed THEN HandlerOutcome("managed", role, <<>>)
          ELSE IF ~editOk THEN HandlerOutcome("threw", role, newName)
          ELSE HandlerOutcome("renamed", role, newName)
    IN  Rename(IF originalMessage.roleMention # NoRole THEN originalMessage.roleMention
               ELSE findRoleByName(options.roleName),
               Slice(Trim(options.newRoleName), 0, 100))

\* a user mentioned in the original message, as guild.members.resolve gives
\* it: null (resolves = FALSE), or a member with member.kickable,
\* member.moderatable, whether member.roles.cache has the target role, and
\* whether the call made for this member (kick, timeout, roles.add,
\* roles.remove, voice.setChannel, voice.disconnect) resolves
Member(resolves, kickable, moderatable, holds, callOk) ==
  [resolves |-> resolves, kickable |-> kickable, moderatable |-> moderatable,
   holds |-> holds, callOk |-> callOk]
Gone == Member(FALSE, FALSE, FALSE, FALSE, FALSE)

\* the mentioned users drawn, for one, two and three mentions
MentionLists ==
  { <<>>,
    <<Gone>>,
    <<Member(TRUE, TRUE, FALSE, FALSE, TRUE)>>,
    <<Member(TRUE, FALSE, TRUE, TRUE, TRUE)>>,
    <<Member(TRUE, TRUE, TRUE, FALSE, FALSE)>>,
    <<Member(TRUE, FALSE, FALSE, TRUE, FALSE)>>,
    <<Gone, Member(TRUE, TRUE, TRUE, FALSE, TRUE)>>,
    <<Member(TRUE, FALSE, FALSE, TRUE, TRUE), Member(TRUE, TRUE, TRUE, FALSE, TRUE)>>,
    <<Member(TRUE, TRUE, TRUE, FALSE, FALSE), Member(TRUE, TRUE, TRUE, FALSE, TRUE)>>,
    <<Member(TRUE, TRUE, TRUE, TRUE, TRUE), Member(TRUE, TRUE, TRUE, FALSE, FALSE),
      Member(TRUE, TRUE, TRUE, FALSE, TRUE)>>,
    <<Member(TRUE, TRUE, TRUE, FALSE, TRUE), Member(TRUE, TRUE, TRUE, TRUE, FALSE),
      Member(TRUE, TRUE, TRUE, TRUE, TRUE)>>,
    <<Member(TRUE, TRUE, TRUE, TRUE, FALSE), Gone,
      Member(TRUE, TRUE, TRUE, FALSE, FALSE)>> }

\* getMentionedMembers(guild, message): the mentioned users that resolve to a
\* member, in order; [] for a null message
getMentionedMembers(originalMessage, mentions) ==
  IF ~originalMessage.exists THEN <<>>
  ELSE SelectSeq(mentions, LAMBDA m : m.resolves)

\* getFirstMentionedRole(originalMessage) ??
\*   (options.roleName ? findRoleByName(guild, options.roleName) : null)
TargetRole(originalMessage, options) ==
  IF originalMessage.roleMention # NoRole THEN originalMessage.roleMention
  ELSE IF options.roleName = <<>> THEN NoRole
  ELSE findRoleByName(options.roleName)

\* what a handler call did: the message it reported with followUp ("" when it
\* reported none), the role it resolved, the members (by their position in
\* the list it went through) for whom the platform call was made, and the
\* count in the message
Outcome(kind, message, role, called, count) ==
  [kind |-> kind, message |-> message, role |-> role, calls |-> called, count |-> count]
HandlerThrew(role, called) == Outcome("threw", "", role, called, 0)

\* the loop with the count going up for every member, whether or not a call
\* was due for it
ForEachMemberCountingAll(members, due, k, acc) ==
  IF k > Len(members) THEN acc
  ELSE IF ~due[k] THEN [acc EXCEPT !.count = @ + 1]
  ELSE IF members[k].callOk
    THEN [count |-> acc.count + 1, calls |-> Append(acc.calls, k)]
  ELSE [acc EXCEPT !.calls = Append(@, k)]

\* one round of `for (const member of members) { try { if (due) { await
\* call; n++; } } catch {} }` for the member k, on the count and the calls so far
ForEachMember(members, due, k, acc) ==
  IF k > Len(members) THEN acc
  ELSE IF ~due[k] THEN acc
  ELSE IF members[k].callOk
    THEN [count |-> acc.count + 1, calls |-> Append(acc.calls, k)]
  ELSE [acc EXCEPT !.calls = Append(@, k)]

\* the loop without the try/catch around the call: the first failure ends it
RECURSIVE LoopAborting(_, _, _, _)
LoopAborting(members, due, k, acc) ==
  IF k > Len(members) THEN acc
  ELSE IF due[k] /\ ~members[k].callOk THEN ForEachMember(members, due, k, acc)
  ELSE LoopAborting(members, due, k + 1, ForEachMember(members, due, k, acc))

\* the whole loop, from the member k on
RECURSIVE Loop(_, _, _, _)
Loop(members, due, k, acc) ==
  IF k > Len(members) THEN acc
  ELSE Loop(members, due, k + 1, ForEachMember(members, due, k, acc))

\* addToRole.handler (add = TRUE) and removeFromRole.handler (add = FALSE):
\* the call is due for the members that do not hold (that hold) the role
roleBatchHandler(add, originalMessage, options, mentions) ==
  IF ~originalMessage.exists THEN HandlerThrew(NoRole, <<>>)
  ELSE
    LET Batch(role, members) ==
          IF role = NoRole
            THEN Outcome("needRole",
                         IF add THEN "Mention the role (@Role) or give its name (e.g. add @user to Moderator)."
                         ELSE "Mention the role (@Role) or give its name (e.g. remove @user from Moderator).",
                         NoRole, <<>>, 0)
          ELSE IF Len(members) = 0
            THEN Outcome("needUsers",
                         IF add THEN "Mention at least one user (e.g. add @user to Moderator)."
                         ELSE "Mention at least one user (e.g. remove @user from Moderator).",
                         role, <<>>, 0)
          ELSE LET Report(acc) ==
                     Outcome("done",
                             IF add THEN "Added ${added} user(s) to **${role.name}**."
                             ELSE "Removed ${removed} user(s) from **${role.name}**.",
                             role, acc.calls, acc.count)
               IN  Report(Loop(members,
                               [k \in 1..Len(members) |-> members[k].holds # add],
                               1, [count |-> 0, calls |-> <<>>]))
    IN  Batch(TargetRole(originalMessage, options),
              getMentionedMembers(originalMessage, mentions))

\* the handler with the channels found whatever the original message is
voiceBatchHandlerAnyMessage(move, originalMessage, found, members) ==
  IF ~found
    THEN Outcome("needChannel",
                 IF move THEN "Specify source and target voice channels (e.g. move everyone from General to Music)."
                 ELSE "Specify a voice channel (e.g. disconnect everyone in General).",
                 NoRole, <<>>, 0)
  ELSE LET Report(acc) ==
             Outcome("done",
                     IF move THEN "Moved ${moved} user(s) from **${sourceChannel.name}** to **${targetChannel.name}**."
                     ELSE "Disconnected ${disconnected} user(s) from **${voiceChannel.name}**.",
                     NoRole, acc.calls, acc.count)
       IN  Report(Loop(members, [k \in 1..Len(members) |-> TRUE],
                       1, [count |-> 0, calls |-> <<>>]))

\* moveAllUsers.handler (move = TRUE) and disconnectAllUsers.handler: the
\* channels are looked up from originalMessage?.mentions?.channels and
\* originalMessage?.content, which give nothing for a null message; found
\* tells whether the channels that a message names resolve to voice
\* channels; members are the members of the (source) channel
voiceBatchHandler(move, originalMessage, found, members) ==
  IF ~(originalMessage.exists /\ found)
    THEN Outcome("needChannel",
                 IF move THEN "Specify source and target voice channels (e.g. move everyone from General to Music)."
                 ELSE "Specify a voice channel (e.g. disconnect everyone in General).",
                 NoRole, <<>>, 0)
  ELSE LET Report(acc) ==
             Outcome("done",
                     IF move THEN "Moved ${moved} user(s) from **${sourceChannel.name}** to **${targetChannel.name}**."
                     ELSE "Disconnected ${disconnected} user(s) from **${voiceChannel.name}**.",
                     NoRole, acc.calls, acc.count)
       IN  Report(Loop(members, [k \in 1..Len(members) |-> TRUE],
                       1, [count |-> 0, calls |-> <<>>]))

\* getFirstMentionedMember(guild, message): the member the first mentioned user
\* resolves to, Gone for null
getFirstMentionedMember(mentions) ==
  IF Len(mentions) = 0 THEN Gone ELSE mentions[1]

\* the handler with the kick made whatever member.kickable says
memberHandlerUnguarded(kick, originalMessage, mentions) ==
  IF ~originalMessage.exists THEN HandlerThrew(NoRole, <<>>)
  ELSE
    LET Act(member) ==
          IF ~member.resolves
            THEN Outcome("needUser",
                         IF kick THEN "Mention a user to kick (e.g. kick @user)."
                         ELSE "Mention a user to mute/timeout (e.g. mute @user).",
                         NoRole, <<>>, 0)
          ELSE IF ~member.callOk THEN HandlerThrew(NoRole, <<1>>)
          ELSE Outcome("done",
                       IF kick THEN "Kicked ${member.user.tag}."
                       ELSE "Timed out ${member.user.tag} for 5 minutes.",
                       NoRole, <<1>>, 1)
    IN  Act(getFirstMentionedMember(mentions))

\* kickUser.handler (kick = TRUE) and muteUser.handler (kick = FALSE, the
\* call is member.timeout(TIMEOUT_MS_DEFAULT)); message.mentions of a null
\* message throws
memberHandler(kick, originalMessage, mentions) ==
  IF ~originalMessage.exists THEN HandlerThrew(NoRole, <<>>)
  ELSE
    LET Act(member) ==
          IF ~member.resolves
            THEN Outcome("needUser",
                         IF kick THEN "Mention a user to kick (e.g. kick @user)."
                         ELSE "Mention a user to mute/timeout (e.g. mute @user).",
                         NoRole, <<>>, 0)
          ELSE IF ~(IF kick THEN member.kickable ELSE member.moderatable)
            THEN Outcome("notAble",
                         IF kick THEN "I can't kick that user (role hierarchy or permissions)."
                         ELSE "I can't timeout that user (role hierarchy or permissions).",
                         NoRole, <<>>, 0)
          ELSE IF ~member.callOk THEN HandlerThrew(NoRole, <<1>>)
          ELSE Outcome("done",
                       IF kick THEN "Kicked ${member.user.tag}."
                       ELSE "Timed out ${member.user.tag} for 5 minutes.",
                       NoRole, <<1>>, 1)
    IN  Act(getFirstMentionedMember(mentions))

\* banUser.handler, disconnectUser.handler and moveUser.handler: each calls
\* getFirstMentionedMember first, which throws for a null message.  able is
\* member.bannable, Boolean(member.voice?.channel), and whether the target
\* channel named in the message is a voice channel.  banUser goes on with
\* the id of a mentioned user that is no member (target = member ?? userId)
targetHandler(id, originalMessage, mentions, able) ==
  IF ~originalMessage.exists THEN HandlerThrew(NoRole, <<>>)
  ELSE
    LET Call(member, done) ==
          IF ~member.callOk THEN HandlerThrew(NoRole, <<1>>)
          ELSE Outcome("done", done, NoRole, <<1>>, 1)
        Act(member) ==
          IF id = banUser
            THEN IF Len(mentions) = 0
                   THEN Outcome("needUser", "Mention a user to ban (e.g. ban @user).",
                                NoRole, <<>>, 0)
                 ELSE IF member.resolves /\ ~able
                   THEN Outcome("notAble",
                                "I can't ban that user (role hierarchy or permissions).",
                                NoRole, <<>>, 0)
                 ELSE Call(member, "Banned ${member?.user?.tag ?? userId}.")
          ELSE IF ~member.resolves
            THEN Outcome("needUser",
                         IF id = disconnectUser THEN "Mention a user to disconnect from voice."
                         ELSE "Mention a user to move (e.g. move @user to General).",
                         NoRole, <<>>, 0)
          ELSE IF ~able
            THEN Outcome("notAble",
                         IF id = disconnectUser THEN "That user is not in a voice channel."
                         ELSE "Specify a voice channel (e.g. move @user to #General).",
                         NoRole, <<>>, 0)
          ELSE Call(member,
                    IF id = disconnectUser THEN "Disconnected ${member.user.tag} from voice."
                    ELSE "Moved ${member.user.tag} to **${targetChannel.name}**.")
    IN  Act(getFirstMentionedMember(mentions))

\* clearMessages.handler (able: channel.bulkDelete is a function) and
\* createRole.handler (the trimmed roleName must not be empty); neither
\* reads the original message
plainHandler(id, options, able, callOk) ==
  IF id = clearMessages
    THEN IF ~able
           THEN Outcome("notAble", "Can't clear messages in this channel.", NoRole, <<>>, 0)
         ELSE IF ~callOk THEN HandlerThrew(NoRole, <<1>>)
         ELSE Outcome("done", "Cleared ${deleted.size} message(s).", NoRole, <<1>>, 1)
  ELSE IF Slice(Trim(options.roleName), 0, 100) = <<>>
    THEN Outcome("needRole",
                 "No role name was provided. Try again and say e.g. 'create role called Moderator'.",
                 NoRole, <<>>, 0)
  ELSE IF ~callOk THEN HandlerThrew(NoRole, <<1>>)
  ELSE Outcome("done", "Created role **${role.name}**.", NoRole, <<1>>, 1)

\* the dispatcher with the failure reported whether or not the handler threw
DispatchFollowUpsAlways(handlerFollowUps, threw) ==
  handlerFollowUps \o <<"Failed: ${err.message}">>

\* part_001:203-210: the follow-ups attempted for an activation whose
\* handler attempted handlerFollowUps and then returned or threw; each
\* followUp carries .catch(() => {})
DispatchFollowUps(handlerFollowUps, threw) ==
  handlerFollowUps \o (IF threw THEN <<"Failed: ${err.message}">> ELSE <<>>)

\* the handler without the check of role.managed
deleteRoleHandlerUnguarded(originalMessage, options, deleteOk) ==
  IF ~originalMessage.exists THEN HandlerThrew(NoRole, <<>>)
  ELSE
    LET Delete(role) ==
          IF role = NoRole
            THEN Outcome("needRole",
                         "Mention a role (@Role) or give the role name (e.g. delete role Moderator).",
                         NoRole, <<>>, 0)
          ELSE IF ~deleteOk THEN HandlerThrew(role, <<1>>)
          ELSE Outcome("done", "Deleted role **${name}**.", role, <<1>>, 1)
    IN  Delete(TargetRole(originalMessage, options))

\* deleteRole.handler(interaction, originalMessage, options); deleteOk tells
\* whether role.delete resolves
deleteRoleHandler(originalMessage, options, deleteOk) ==
  IF ~originalMessage.exists THEN HandlerThrew(NoRole, <<>>)
  ELSE
    LET Delete(role) ==
          IF role = NoRole
            THEN Outcome("needRole",
                         "Mention a role (@Role) or give the role name (e.g. delete role Moderator).",
                         NoRole, <<>>, 0)
          ELSE IF role.managed
            THEN Outcome("managed",
                         "Can't delete that role (it's managed by an integration).",
                         role, <<>>, 0)
          ELSE IF ~deleteOk THEN HandlerThrew(role, <<1>>)
          ELSE Outcome("done", "Deleted role **${name}**.", role, <<1>>, 1)
    IN  Delete(TargetRole(originalMessage, options))

----------------------------------------------------------------------------
(* One confirmation token, from the Decision to the decoded options        *)

\* the role names drawn: 'a' (kept by encodeURIComponent) and the euro sign
\* (U+20AC, encoded as the nine characters %E2%82%AC)
NameAlphabet == {97, 8364}

\* the names drawn for renameRole: the euro sign and the separator character
\* \x01, the names of two roles of the guild, and two names that hold '||'
RenameNames ==
  SeqsUpTo({8364, 1}, MaxRenameLen)
  \cup {<<97>>, <<77,111,100,115>>, <<124,124>>, <<97,124,124,1>>}

\* names to look roles up with: 'eve', 'MODS', 'o', ' a ', ' ' and 'x'
RoleNameProbes ==
  { <<101,118,101>>, <<77,79,68,83>>, <<111>>, <<32,97,32>>, <<32>>, <<120>> }

TokenDecisions ==
  { Decision(ReplyText, id, <<>>, <<>>) : id \in RegistryIds }
  \cup { Decision(ReplyText, id, name, <<>>) :
           id \in COMMANDS_WITH_ROLE_NAME,
           name \in (SeqsUpTo(NameAlphabet, MaxNameLen) \ {<<>>})
                      \cup {<<124,124,1>>} \cup RoleNameProbes }
  \cup { Decision(ReplyText, COMMAND_RENAME_ROLE, name, newName) :
           name \in RenameNames, newName \in RenameNames }

\* the usernames of message.mentions.users of the triggering message: no
\* mention, 'bob', or two users whose usernames have the 32 characters that
\* the platform allows
TokenUsers ==
  { <<>>, MentionedUsers, << [k \in 1..32 |-> 117], [k \in 1..32 |-> 118] >>,
    << <<98,111,98>>, <<97,108>>, <<101,118,101>> >> }

\* what a handler is run on
In(originalMessage, mentions, ok) ==
  [originalMessage |-> originalMessage, mentions |-> mentions, ok |-> ok]
NoIn == In(OriginalMessage(FALSE, NoRole), <<>>, FALSE)

TokenInit ==
  /\ tokD \in TokenDecisions
  /\ tokUsers \in TokenUsers
  /\ tokOut = NothingSent("none")
  /\ tokOpt = NoOptions
  /\ tokRun = NotRun
  /\ tokIn = NoIn
  /\ pcT = "start"

\* message handling renders the control
BuildToken ==
  /\ pcT = "start"
  /\ tokOut' = HandleDecision(tokD, tokUsers, <<>>, TRUE)
  /\ pcT' = "built"
  /\ UNCHANGED <<tokD, tokUsers, tokOpt, tokRun, tokIn, protocolVars, engineVars, handlingVars>>

\* the activation decodes the control's customId
DecodeToken ==
  /\ pcT = "built" /\ tokOut.kind = "control"
  /\ LET parsed == ParseCustomId(tokOut.customId)
     IN  tokOpt' = DecodeOptions(parsed.commandId, parsed.payloadEnc)
  /\ pcT' = "decoded"
  /\ UNCHANGED <<tokD, tokUsers, tokOut, tokRun, tokIn, protocolVars, engineVars, handlingVars>>

\* an authorized activation of a renameRole control runs the handler with the
\* decoded options
RunRename(originalMessage, editOk) ==
  /\ pcT = "decoded" /\ tokD.adminCommand = COMMAND_RENAME_ROLE
  /\ tokIn' = In(originalMessage, <<>>, editOk)
  /\ tokRun' = renameRoleHandler(originalMessage, tokOpt, editOk)
  /\ pcT' = "ran"
  /\ UNCHANGED <<tokD, tokUsers, tokOut, tokOpt, protocolVars, engineVars, handlingVars>>

\* an authorized activation of a deleteRole control runs the handler
RunDelete(originalMessage, deleteOk) ==
  /\ pcT = "decoded" /\ tokD.adminCommand = deleteRole
  /\ tokIn' = In(originalMessage, <<>>, deleteOk)
  /\ tokRun' = deleteRoleHandler(originalMessage, tokOpt, deleteOk)
  /\ pcT' = "ran"
  /\ UNCHANGED <<tokD, tokUsers, tokOut, tokOpt, protocolVars, engineVars, handlingVars>>

\* ... of an addToRole or removeFromRole control; the original message
\* mentions the users that the triggering message mentioned
RunRoleBatch(originalMessage, mentions) ==
  /\ pcT = "decoded" /\ tokD.adminCommand \in {addToRole, removeFromRole}
  /\ Len(mentions) = Len(tokUsers)
  /\ tokIn' = In(originalMessage, mentions, TRUE)
  /\ tokRun' = roleBatchHandler(tokD.adminCommand = addToRole, originalMessage,
                                tokOpt, mentions)
  /\ pcT' = "ran"
  /\ UNCHANGED <<tokD, tokUsers, tokOut, tokOpt, protocolVars, engineVars, handlingVars>>

\* ... of a moveAllUsers or disconnectAllUsers control; members are the
\* members of the voice channel
RunVoiceBatch(originalMessage, found, members) ==
  /\ pcT = "decoded" /\ tokD.adminCommand \in {moveAllUsers, disconnectAllUsers}
  /\ originalMessage.roleMention = NoRole
  /\ \A k \in 1..Len(members) : members[k].resolves
  /\ tokIn' = In(originalMessage, members, found)
  /\ tokRun' = voiceBatchHandler(tokD.adminCommand = moveAllUsers, originalMessage,
                                 found, members)
  /\ pcT' = "ran"
  /\ UNCHANGED <<tokD, tokUsers, tokOut, tokOpt, protocolVars, engineVars, handlingVars>>

\* ... of a banUser, disconnectUser or moveUser control
RunTarget(originalMessage, mentions, able) ==
  /\ pcT = "decoded" /\ tokD.adminCommand \in {banUser, disconnectUser, moveUser}
  /\ originalMessage.roleMention = NoRole
  /\ Len(mentions) = Len(tokUsers)
  /\ tokIn' = In(originalMessage, mentions, able)
  /\ tokRun' = targetHandler(tokD.adminCommand, originalMessage, mentions, able)
  /\ pcT' = "ran"
  /\ UNCHANGED <<tokD, tokUsers, tokOut, tokOpt, protocolVars, engineVars, handlingVars>>

\* ... of a clearMessages or createRole control
RunPlain(able, callOk) ==
  /\ pcT = "decoded" /\ tokD.adminCommand \in {clearMessages, createRole}
  /\ tokIn' = In(OriginalMessage(TRUE, NoRole), <<>>, able /\ callOk)
  /\ tokRun' = plainHandler(tokD.adminCommand, tokOpt, able, callOk)
  /\ pcT' = "ran"
  /\ UNCHANGED <<tokD, tokUsers, tokOut, tokOpt, protocolVars, engineVars, handlingVars>>

\* ... of a kickUser or muteUser control
RunMember(originalMessage, mentions) ==
  /\ pcT = "decoded" /\ tokD.adminCommand \in {kickUser, muteUser}
  /\ Len(mentions) = Len(tokUsers)
  /\ tokIn' = In(originalMessage, mentions, TRUE)
  /\ tokRun' = memberHandler(tokD.adminCommand = kickUser, originalMessage, mentions)
  /\ pcT' = "ran"
  /\ UNCHANGED <<tokD, tokUsers, tokOut, tokOpt, protocolVars, engineVars, handlingVars>>

TokenNext ==
  \/ BuildToken
  \/ DecodeToken
  \/ \E originalMessage \in OriginalMessages, editOk \in BOOLEAN :
       RunRename(originalMessage, editOk)
  \/ \E originalMessage \in OriginalMessages, deleteOk \in BOOLEAN :
       RunDelete(originalMessage, deleteOk)
  \/ \E originalMessage \in OriginalMessages, mentions \in MentionLists :
       RunRoleBatch(originalMessage, mentions)
  \/ \E originalMessage \in OriginalMessages, found \in BOOLEAN, members \in MentionLists :
       RunVoiceBatch(originalMessage, found, members)
  \/ \E originalMessage \in OriginalMessages, mentions \in MentionLists, able \in BOOLEAN :
       RunTarget(originalMessage, mentions, able)
  \/ \E able \in BOOLEAN, callOk \in BOOLEAN : RunPlain(able, callOk)
  \/ \E originalMessage \in OriginalMessages, mentions \in MentionLists :
       RunMember(originalMessage, mentions)

----------------------------------------------------------------------------
(* The messages of one channel, handled concurrently                       *)

\* a message of the channel: createdTimestamp is its position in the store,
\* replyTo the id of the message it replies to (0 for none), carries the
\* Decision that a reply of the bot was made of
StoredMessage(id, author, replyTo, carries) ==
  [id |-> id, createdTimestamp |-> id, author |-> author, replyTo |-> replyTo,
   carries |-> carries]

\* the Decision of the engine for a task, with the context it was given;
\* speaks tells whether its reply is other than whitespace
MadeDecision(speaks, about) == [speaks |-> speaks, about |-> about]
Undecided == MadeDecision(FALSE, NoContext)

\* the local variables of one run of the MessageCreate handler: where it
\* stands (at which await), its conversation and its Decision
HandlingTask(pc, conversation, decision) ==
  [pc |-> pc, conversation |-> conversation, decision |-> decision]

\* the channel holds one earlier message of the bot
HandlingInit ==
  /\ store = << StoredMessage(1, BotId, 0, Undecided) >>
  /\ handling = <<>>

\* the members' messages that arrived so far
Arrived == {k \in 1..Len(store) : store[k].author # BotId}

\* a member posts a message, as a reply to the message replyTo or to none;
\* MessageCreate is delivered and the handler runs up to its first await
\* (part_001:115-118)
Arrive(author, replyTo) ==
  /\ Cardinality(Arrived) < MaxArrivals
  /\ replyTo \in 0..Len(store)
  /\ store' = Append(store, StoredMessage(Len(store) + 1, author, replyTo, Undecided))
  /\ handling' = handling @@ (Len(store) + 1 :> HandlingTask("fetch", NoContext, Undecided))
  /\ UNCHANGED <<protocolVars, engineVars, tokenVars>>

\* the task of message id gets its conversation (part_001:118, 95-109): the
\* history is what the store holds when the fetch is served; the referenced
\* message is fetched after it
BuildConversation(id, fetchOk) ==
  /\ id \in DOMAIN handling /\ handling[id].pc = "fetch"
  /\ LET Built(conversation) ==
           handling' = [handling EXCEPT ![id] =
             HandlingTask(IF conversation.threw THEN "crashed" ELSE "engine",
                          conversation, Undecided)]
         Referenced(replyTo) ==
           IF replyTo = 0 THEN NoReference
           ELSE Reference(replyTo, TRUE, store[replyTo].author)
     IN  Built(buildConversationMessages(
                 store, Incoming(FALSE, store, fetchOk, Referenced(store[id].replyTo)),
                 BotId))
  /\ UNCHANGED <<store, protocolVars, engineVars, tokenVars>>

\* the engine answers the task (part_001:122-126); a reply of whitespace
\* ends the handler (line 128)
Decide(id, speaks) ==
  /\ id \in DOMAIN handling /\ handling[id].pc = "engine"
  /\ handling' = [handling EXCEPT ![id] =
       HandlingTask(IF speaks THEN "send" ELSE "done", @.conversation,
                    MadeDecision(speaks, @.conversation))]
  /\ UNCHANGED <<store, protocolVars, engineVars, tokenVars>>

\* the Decision read from a variable that the tasks share, which holds the
\* Decision of the newest message decided so far
DecisionShared(tasks, id) ==
  tasks[CHOOSE j \in DOMAIN tasks :
          /\ tasks[j].pc \in {"send", "done"}
          /\ \A m \in DOMAIN tasks : tasks[m].pc \in {"send", "done"} => m <= j].decision

\* the Decision that the task of message id sends: the constants reply,
\* adminCommand, roleName, newRoleName of its own run of the handler
\* (part_001:122)
DecisionOf(tasks, id) == tasks[id].decision

\* message.reply of the task (part_001:152, 154): when it succeeds the
\* store holds the bot's message, a reply to the message id
Send(id, sendOk) ==
  /\ id \in DOMAIN handling /\ handling[id].pc = "send"
  /\ store' = IF sendOk
                THEN Append(store, StoredMessage(Len(store) + 1, BotId, id,
                                                 DecisionOf(handling, id)))
                ELSE store
  /\ handling' = [handling EXCEPT ![id].pc = "done"]
  /\ UNCHANGED <<protocolVars, engineVars, tokenVars>>

HandlingNext ==
  \/ \E author \in {"alice", "bob"}, replyTo \in 0..1 : Arrive(author, replyTo)
  \/ \E id \in DOMAIN handling, fetchOk \in BOOLEAN : BuildConversation(id, fetchOk)
  \/ \E id \in DOMAIN handling, speaks \in BOOLEAN : Decide(id, speaks)
  \/ \E id \in DOMAIN handling, sendOk \in BOOLEAN : Send(id, sendOk)

----------------------------------------------------------------------------
(* The specifications *)

\* the parts a specification leaves alone start in fixed states
EngineIdle ==
  /\ input = Input("missing", <<>>, FALSE, NoContent)
  /\ authorIsAdmin = FALSE
  /\ incoming = PlainIncoming
  /\ context = NoContext
  /\ calls = 0
  /\ result = Returned(<<>>)
  /\ sent = NothingSent("none")
  /\ pcE = "idle"

TokenIdle ==
  /\ tokD = NoDecision
  /\ tokUsers = <<>>
  /\ tokIn = NoIn
  /\ tokOut = NothingSent("none")
  /\ tokOpt = NoOptions
  /\ tokRun = NotRun
  /\ pcT = "idle"

ProtocolIdle ==
  /\ admins = {}
  /\ nMsg = 0
  /\ lastMsg = NoMessage
  /\ controls = {}
  /\ nAct = 0
  /\ acts = EmptyBag
  /\ last = NoTask
  /\ invocations = 0

HandlingIdle ==
  /\ store = <<>>
  /\ handling = <<>>

\* the confirmation protocol
Init == ProtocolInit /\ EngineIdle /\ TokenIdle /\ HandlingIdle
Next == ProtocolNext
Spec == Init /\ [][Next]_vars

\* one message, from the completion to what is sent
InitEngine == EngineInit /\ ProtocolIdle /\ TokenIdle /\ HandlingIdle
NextEngine == EngineNext
SpecEngine == InitEngine /\ [][NextEngine]_vars

\* one confirmation token, encoded and decoded
InitToken == TokenInit /\ ProtocolIdle /\ EngineIdle /\ HandlingIdle
NextToken == TokenNext
SpecToken == InitToken /\ [][NextToken]_vars

\* the messages of one channel, handled concurrently
InitHandling == HandlingInit /\ ProtocolIdle /\ EngineIdle /\ TokenIdle
NextHandling == HandlingNext
SpecHandling == InitHandling /\ [][NextHandling]_vars

----------------------------------------------------------------------------
(* Properties of the confirmation protocol (specification Spec)            *)

\* the activation tasks the state records: those in flight and the last ended
AllTasks == Tasks \cup {last}

\* the activator was the server owner or held Administrator when activating
Authorized(t) == t.user = Owner \/ t.hadPermission

\* C1: a registry handler is invoked only inside a control activation whose
\* activating user passed the owner-or-Administrator check evaluated at
\* activation time; handling an incoming message never invokes a registry
\* handler; and an activation by a non-admin ends with the private "no
\* permission" reply and no handler invocation.
C1_HandlerOnlyWhenAuthorized ==
  /\ [](\A t \in AllTasks :
          /\ (t.invoked \/ t.pc = "handler") => Authorized(t)
          /\ (Truthy(t.cmd) /\ ~Authorized(t)) =>
               (t.pc = "done" /\ t.out = <<"noperm">> /\ ~t.invoked /\ ~t.ackCalled))
  /\ [][invocations' # invocations =>
          /\ invocations' = invocations + 1
          /\ nMsg' = nMsg /\ lastMsg' = lastMsg
          /\ last'.invoked /\ last'.cmd.kind = "entry" /\ Authorized(last')]_vars
  /\ [][nMsg' # nMsg => invocations' = invocations /\ acts' = acts]_vars

\* C1 witness: a handler has run for an authorized activation, and then a
\* member without the permission activated a control of a registered command
\* and was refused
C1_Witness ==
  /\ invocations >= 1
  /\ last.cmd.kind = "entry" /\ ~Authorized(last)
  /\ last.pc = "done" /\ last.out = <<"noperm">> /\ ~last.invoked

\* C2: at activation of a control with a registered command id the activator
\* is authorized if and only if they are the server owner or hold the
\* Administrator permission at that time: such an activation is acknowledged
\* (deferUpdate is called) and, once acknowledged, dispatched to the handler;
\* every other activation is rejected with "no permission".
C2_AuthorizedIffOwnerOrAdministrator ==
  \A t \in AllTasks :
    t.cmd.kind = "entry" =>
      IF Authorized(t)
        THEN /\ t.ackCalled
             /\ t.pc \in {"defer", "fetch", "handler", "done", "crashed"}
             /\ t.out \in {<<>>, <<"outcome">>, <<"failed">>}
             /\ (t.pc = "done") <=> t.invoked
        ELSE /\ ~t.ackCalled /\ ~t.invoked
             /\ t.pc = "done" /\ t.out = <<"noperm">>

\* C2 witness: a member who held Administrator when activating was dispatched,
\* although the permission has been revoked since
C2_Witness ==
  /\ last.user # Owner /\ last.hadPermission /\ last.user \notin admins
  /\ last.cmd.kind = "entry" /\ last.ackCalled /\ last.invoked /\ last.pc = "done"

\* the command id a task's customId carries
TaskCommandId(t) == ParseCustomId(t.customId).commandId

\* C9: a command id that is not one of the 13 registry ids is treated as
\* absent everywhere: getAdminCommand returns null for it, a Decision carrying
\* it produces a plain reply with no control (what the same Decision without
\* adminCommand produces), and an activation whose token carries it invokes no
\* handler and sends nothing.
C9_UnknownIdTreatedAsAbsent ==
  /\ (lastMsg.id # 0 /\ ~lastMsg.isBot /\ lastMsg.d.adminCommand \notin RegistryIds) =>
       /\ getAdminCommand(lastMsg.d.adminCommand) = Null
       /\ lastMsg.out = HandleDecision([lastMsg.d EXCEPT !.adminCommand = <<>>],
                                       MentionedUsers, <<>>, lastMsg.sendOk)
  /\ \A t \in AllTasks :
       (StartsWith(t.customId, ADMIN_CONFIRM_PREFIX) /\ TaskCommandId(t) \notin RegistryIds) =>
         /\ getAdminCommand(TaskCommandId(t)) = Null
         /\ ~t.invoked /\ ~t.ackCalled /\ t.out = <<>>

----------------------------------------------------------------------------
(* Properties of the engine (specification SpecEngine)                     *)

\* the engine has been called for the message
EngineCalled == pcE \in {"decided", "rejected", "done"}

\* C3: when the author of the message is not a server admin, the Decision the
\* engine returns carries no adminCommand, whatever text the completion
\* service returns, and no confirmation control is rendered for the message.
C3_NoCommandForNonAdmin ==
  (~authorIsAdmin /\ EngineCalled) =>
    /\ result.adminCommand = <<>>
    /\ sent.kind # "control"

\* C3 witness: for a non-admin author the completion text named a registered
\* command, and the message was answered with a plain reply
C3_Witness ==
  /\ ~authorIsAdmin /\ input.form = "command" /\ pcE = "done"
  /\ result.adminCommand = <<>> /\ sent.kind = "plain" /\ sent.content = ReplyText

\* C4: shouldRespondAndReply never throws to its caller when the call of the
\* completion service fails; the failure is caught and the result is
\* {reply: ""}.
C4_ServiceFailureGivesEmptyReply ==
  (EngineCalled /\ input.completion.rejects) =>
    /\ ~result.threw /\ pcE # "rejected"
    /\ result.reply = <<>>

\* C5: for every text the completion service can return (truncated JSON,
\* prose-wrapped JSON, JSON that is no object such as null, a number or an
\* array) shouldRespondAndReply returns a Decision and never throws.
C5_NeverThrowsOnAnyText ==
  (EngineCalled /\ ~input.completion.rejects) => (~result.threw /\ pcE # "rejected")

\* C6: line feeds, carriage returns and tabs outside the reply string value
\* are left untouched, so a pretty-printed object with a valid reply still
\* parses and yields its reply.
C6_PrettyPrintedObjectYieldsReply ==
  (EngineCalled /\ input.form = "pretty") =>
    (~result.threw /\ result.reply = input.reply)

\* a literal line feed, carriage return or tab
IsControl(c) == c \in {10, 13, 9}

\* C7: when the completion text is a single-line JSON object whose reply
\* string value holds literal line feeds, carriage returns or tabs, the engine
\* parses it and the returned reply holds those same characters, one code
\* unit each.
C7_LiteralControlsInReplyPreserved ==
  (EngineCalled /\ input.form = "compact" /\ input.rawControls) =>
    (~result.threw /\ result.reply = input.reply)

\* C7 witness: an object whose reply held a literal line feed was answered
\* with that reply
C7_Witness ==
  /\ pcE = "done" /\ input.form = "compact" /\ input.rawControls
  /\ \E k \in 1..Len(input.reply) : input.reply[k] = 10
  /\ \E k \in 1..Len(input.completion.content) : IsControl(input.completion.content[k])
  /\ result.reply = input.reply /\ sent.kind = "plain" /\ sent.content = input.reply

\* C8: when the completion text holds a valid JSON object surrounded by prose
\* or wrapped in a code fence, the engine returns that object's reply instead
\* of the empty reply.
C8_WrappedObjectYieldsReply ==
  (EngineCalled /\ input.form = "wrapped") =>
    (~result.threw /\ result.reply = input.reply)

----------------------------------------------------------------------------
(* Properties of the confirmation token (specification SpecToken)          *)

\* C10: for every registered command id and every roleName / newRoleName the
\* token built by message handling is at most 100 bytes long (all its code
\* units are single-byte) and starts with the full prefix 'admin_confirm:'
\* followed by the full command id.
C10_TokenFitsAndKeepsCommandId ==
  (pcT \in {"built", "decoded"} /\ tokOut.kind = "control") =>
    /\ \A k \in 1..Len(tokOut.customId) : tokOut.customId[k] < 128
    /\ Len(tokOut.customId) <= CUSTOM_ID_MAX
    /\ StartsWith(tokOut.customId, ADMIN_CONFIRM_PREFIX \o tokD.adminCommand)
    /\ ParseCustomId(tokOut.customId).commandId = tokD.adminCommand

\* C10 witness: a role name whose encoding exceeds the payload budget was cut,
\* and the token still carries the command id
C10_Witness ==
  /\ pcT = "built" /\ tokOut.kind = "control"
  /\ tokD.adminCommand \in COMMANDS_WITH_ROLE_NAME
  /\ Len(encodeURIComponent(tokD.roleName).val) >
       CUSTOM_ID_MAX - Len(ADMIN_CONFIRM_PREFIX \o tokD.adminCommand) - 4
  /\ Len(tokOut.customId) = CUSTOM_ID_MAX - 2
  /\ StartsWith(tokOut.customId, ADMIN_CONFIRM_PREFIX \o tokD.adminCommand)

\* the encoded payload of the token that was built
TokenPayload == ParseCustomId(tokOut.customId).payloadEnc

\* the payload budget of the token: maxPayload of part_001:134
TokenBudget == CUSTOM_ID_MAX - Len(ADMIN_CONFIRM_PREFIX \o tokD.adminCommand) - 4

\* a role-name command's token has been built and decoded
RoleNameTokenDecoded ==
  /\ pcT = "decoded" /\ tokOut.kind = "control"
  /\ tokD.adminCommand \in COMMANDS_WITH_ROLE_NAME /\ tokD.roleName # <<>>

\* C11: round trip for the role-name commands: decoding the token built from
\* (commandId, roleName) yields the same commandId and a roleName equal to the
\* original name, or to a prefix of it when the payload was cut to the budget.
C11_RoleNameRoundTrip ==
  RoleNameTokenDecoded =>
    /\ ParseCustomId(tokOut.customId).commandId = tokD.adminCommand
    /\ tokOpt.roleName # <<>>
    /\ StartsWith(tokD.roleName, tokOpt.roleName)
    /\ Len(encodeURIComponent(tokD.roleName).val) <= TokenBudget =>
         tokOpt.roleName = tokD.roleName

\* a renameRole token with both names has been built and decoded
RenameTokenDecoded ==
  /\ pcT \in {"decoded", "ran"} /\ tokOut.kind = "control"
  /\ tokD.adminCommand = COMMAND_RENAME_ROLE
  /\ tokD.roleName # <<>> /\ tokD.newRoleName # <<>>

\* C12: for renameRole with both names the separator \x01 occurs in neither
\* percent-encoded part, so the payload splits into exactly the current-name
\* part and the new-name part; when each encoded part is at most 35
\* characters, decoding yields exactly the original pair of names.
C12_RenameSeparatorAndRoundTrip ==
  RenameTokenDecoded =>
    /\ ~Includes(encodeURIComponent(tokD.roleName).val, RENAME_PAYLOAD_SEP)
    /\ ~Includes(encodeURIComponent(tokD.newRoleName).val, RENAME_PAYLOAD_SEP)
    /\ Split(TokenPayload, RENAME_PAYLOAD_SEP) =
         << Slice(encodeURIComponent(tokD.roleName).val, 0, 35),
            Slice(encodeURIComponent(tokD.newRoleName).val, 0, 35) >>
    /\ (/\ Len(encodeURIComponent(tokD.roleName).val) <= 35
        /\ Len(encodeURIComponent(tokD.newRoleName).val) <= 35) =>
         tokOpt = [roleName |-> tokD.roleName, newRoleName |-> tokD.newRoleName]

\* C12 witness: names that hold the separator character and a non-ASCII
\* character came back from the token as they were
C12_Witness ==
  /\ RenameTokenDecoded /\ pcT = "decoded"
  /\ \E k \in 1..Len(tokD.roleName) : tokD.roleName[k] = 1
  /\ \E k \in 1..Len(tokD.newRoleName) : tokD.newRoleName[k] = 8364
  /\ tokOpt = [roleName |-> tokD.roleName, newRoleName |-> tokD.newRoleName]

\* C13: a renameRole intent whose role is identified by a role mention in the
\* original message (the Decision has newRoleName but no roleName) results,
\* after an authorized activation and for a role that is not managed, in the
\* mentioned role being renamed to newRoleName.
C13_RenameMentionedRole ==
  (/\ pcT = "ran" /\ tokOut.kind = "control"
   /\ tokD.adminCommand = COMMAND_RENAME_ROLE
   /\ tokD.roleName = <<>> /\ Trim(tokD.newRoleName) # <<>>
   /\ tokRun.role # NoRole /\ ~tokRun.role.managed
   /\ tokRun.kind # "threw") =>
    /\ tokRun.kind = "renamed"
    /\ tokRun.newName = Trim(tokD.newRoleName)

\* a task of a control with a registered command id
ForRegistered(t) ==
  /\ t.pc # "none" /\ StartsWith(t.customId, ADMIN_CONFIRM_PREFIX)
  /\ TaskCommandId(t) \in RegistryIds

\* the options lines 171-184 decode from a task's customId
TaskOptions(t) ==
  DecodeOptions(TaskCommandId(t), ParseCustomId(t.customId).payloadEnc)

\* a task of a control with a registered command id whose payload fails to
\* percent-decode
DecodeFailed(t) ==
  /\ \E k \in 1..Len(t.customId) : t.customId[k] = 37  \* '%': no escape without it
  /\ ForRegistered(t)
  /\ PayloadDecodeFails(TaskCommandId(t), ParseCustomId(t.customId).payloadEnc)

\* C14: when percent-decoding of the token payload fails at activation, the
\* failure is swallowed: the failing parameter is absent from the options, the
\* owner-or-Administrator check is still made (an unauthorized activator gets
\* "no permission"), and an authorized activation is acknowledged and, once
\* its awaits have resolved, has its handler invoked.
C14_DecodeFailureSwallowed ==
  \A t \in AllTasks :
    DecodeFailed(t) =>
      /\ t.options = TaskOptions(t)
      /\ TaskCommandId(t) \in COMMANDS_WITH_ROLE_NAME => t.options.roleName = <<>>
      /\ t.pc \in {"defer", "fetch", "handler", "done", "crashed"}
      /\ Authorized(t) <=> t.ackCalled
      /\ ~Authorized(t) => (t.pc = "done" /\ t.out = <<"noperm">> /\ ~t.invoked)
      /\ (Authorized(t) /\ t.pc = "done") => t.invoked

\* C14 witness: the handler has run, with no role name, for the control whose
\* payload 'createRole||%E2%8' does not decode
C14_Witness ==
  /\ DecodeFailed(last) /\ last.pc = "done" /\ last.invoked
  /\ last.options = NoOptions

\* C15: an authorized activation is acknowledged (deferUpdate) first, then the
\* original message is resolved through the back-reference of the control's
\* message, then the handler is invoked with the decoded options; no handler
\* runs before the acknowledgement, and the message passed to it is the one
\* the control's message refers to, or null, never the control's message.
C15_AcknowledgeResolveInvoke ==
  \A t \in AllTasks :
    /\ (t.pc \in {"fetch", "handler"} \/ t.invoked) => t.ackCalled
    /\ t.pc \in {"defer", "fetch"} => (~t.invoked /\ t.original = 0)
    /\ (t.pc = "handler" \/ t.invoked) =>
         /\ t.original \in {0, t.ref}
         /\ t.original # ControlMessageId(t.ref)
         /\ t.options = TaskOptions(t)

\* C15 witness: a handler has run, after the acknowledgement, with the message
\* that the control's message replies to
C15_Witness ==
  /\ last.pc = "done" /\ last.invoked /\ last.ackCalled
  /\ last.ref # 0 /\ last.original = last.ref

\* C16: whatever the call of a registry handler throws is caught by the
\* dispatcher and reported with a failure message; the activation handler is
\* never rejected by it (it is rejected only by a failing deferUpdate, before
\* any handler call).
C16_HandlerErrorsCaughtAndReported ==
  \A t \in AllTasks :
    /\ t.err # <<>> =>
         (t.pc = "done" /\ t.out = <<"failed">> /\ t.followUp # <<>>)
    /\ t.pc = "crashed" => (~t.invoked /\ t.err = <<>> /\ t.out = <<>>)

\* C16 witness: a handler was invoked, its privileged call was refused, and
\* the failure was reported
C16_Witness ==
  /\ last.invoked /\ last.err = MissingPermissions
  /\ last.pc = "done" /\ last.out = <<"failed">>

\* C17: no failure message sent to a user includes the raw error text of the
\* failed call.
C17_FailureMessagesHideRawErrors ==
  \A t \in AllTasks :
    (t.followUp # <<>> /\ t.err # <<>>) => ~Includes(t.followUp, t.err)

\* C18: an unauthorized activation changes no state (the controls, the tasks
\* in flight, the permissions and the handler calls made are as before), and
\* an authorized activation of a control that has just been rejected is
\* acknowledged and dispatched as any other.
C18_RejectionChangesNothing ==
  /\ [][(nAct' # nAct /\ acts' = acts /\ last'.out = <<"noperm">>) =>
          /\ controls' = controls /\ admins' = admins
          /\ invocations' = invocations
          /\ nMsg' = nMsg /\ lastMsg' = lastMsg]_vars
  /\ [](\A t \in AllTasks :
          (t.prev = "rejected" /\ ForRegistered(t) /\ Authorized(t)) =>
            /\ t.ackCalled
            /\ t.pc \in {"defer", "fetch", "handler", "done", "crashed"}
            /\ t.cmd = getAdminCommand(TaskCommandId(t))
            /\ t.options = TaskOptions(t)
            /\ (t.pc = "done") <=> t.invoked)

\* C18 witness: a control was rejected for a member without the permission,
\* and the next activation of the same control, by the owner, ran the handler
C18_Witness ==
  /\ last.prev = "rejected" /\ Authorized(last)
  /\ last.pc = "done" /\ last.invoked

\* C19: there is no at-most-once state: an authorized activation of a control
\* whose handler has already been called (whether it returned or threw) is
\* acknowledged and calls the same handler with the same decoded options.
C19_NoAtMostOnce ==
  \A t \in AllTasks :
    (t.prev = "dispatched" /\ ForRegistered(t) /\ Authorized(t)) =>
      /\ t.ackCalled
      /\ t.pc \in {"defer", "fetch", "handler", "done", "crashed"}
      /\ t.cmd = Entry(TaskCommandId(t))
      /\ t.options = TaskOptions(t)
      /\ (t.pc = "done") <=> t.invoked

\* C19 witness: the handler of one control has been called twice
C19_Witness ==
  /\ invocations = 2
  /\ last.prev = "dispatched" /\ last.pc = "done" /\ last.invoked

\* C20: for a Decision with a registered adminCommand, whatever its reply, the
\* reply sent carries a control whose token names the command; for a Decision
\* without adminCommand and with a non-empty reply, the reply is sent with no
\* control.
C20_ControlIffAdminCommand ==
  (lastMsg.id # 0 /\ ~lastMsg.isBot /\ lastMsg.sendOk) =>
    /\ lastMsg.d.adminCommand \in RegistryIds =>
         /\ lastMsg.out.kind = "control"
         /\ ParseCustomId(lastMsg.out.customId).commandId = lastMsg.d.adminCommand
    /\ (lastMsg.d.adminCommand = <<>> /\ lastMsg.d.reply # <<>>) =>
         (lastMsg.out.kind = "plain" /\ lastMsg.out.content = lastMsg.d.reply)

\* the command-specific label of the Decision of the token, <<>> for none
TokenSpecificLabel ==
  getConfirmButtonLabel(tokD.adminCommand, tokUsers, <<>>,
                        tokD.roleName, tokD.newRoleName)

\* C21: the label of a rendered control is the command-specific label when
\* there is one of at most 80 characters, and the registry entry's buttonLabel
\* otherwise; it is never longer than 80 characters; for kickUser with exactly
\* one mentioned user it is 'Kick ' followed by the username.
C21_LabelSpecificOrGeneric ==
  (pcT # "start" /\ tokOut.kind = "control") =>
    /\ Len(tokOut.label) <= BUTTON_LABEL_MAX
    /\ tokOut.label =
         IF TokenSpecificLabel # <<>> /\ Len(TokenSpecificLabel) <= BUTTON_LABEL_MAX
           THEN TokenSpecificLabel
           ELSE buttonLabel(tokD.adminCommand)
    /\ (tokD.adminCommand = kickUser /\ Len(tokUsers) = 1) =>
         tokOut.label = <<75,105,99,107,32>> \o tokUsers[1]

\* C21 witness: the command-specific label 'Remove uuu..., vvv... from role'
\* has 83 characters and the control carries 'Confirm remove from role'
C21_Witness ==
  /\ pcT = "built" /\ tokOut.kind = "control"
  /\ tokD.adminCommand = removeFromRole
  /\ Len(TokenSpecificLabel) > BUTTON_LABEL_MAX
  /\ tokOut.label = buttonLabel(removeFromRole)


----------------------------------------------------------------------------
\* The context of a message

\* the handler got a context from buildConversationMessages
ContextBuilt == pcE \in {"context", "decided", "rejected", "done"}

\* the message a turn was made of
TurnMessage(k) == incoming.channel[context.turns[k].of]

\* C22: the context holds at most RECENT_MESSAGES_LIMIT turns, made of the
\* most recent messages of the channel, in ascending order of creation time,
\* and a turn has the role assistant exactly when its message's author is the
\* bot (and the role user otherwise)
C22_ContextRecentAscendingWithRoles ==
  ContextBuilt =>
    LET n == Len(incoming.channel)
        m == Len(context.turns)
    IN  /\ m <= RECENT_MESSAGES_LIMIT
        /\ m = Min(n, RECENT_MESSAGES_LIMIT)
        /\ {context.turns[k].of : k \in 1..m} = (n - m + 1)..n
        /\ \A k \in 1..(m - 1) :
             TurnMessage(k).createdTimestamp <= TurnMessage(k + 1).createdTimestamp
        /\ \A k \in 1..m :
             /\ context.turns[k].role \in {"assistant", "user"}
             /\ context.turns[k].role = "assistant" <=> TurnMessage(k).author = BotId

\* a channel of more messages than the limit, whose oldest message is left
\* out, with turns of both roles
C22_Witness ==
  /\ ContextBuilt
  /\ Len(incoming.channel) > RECENT_MESSAGES_LIMIT
  /\ Len(context.turns) = RECENT_MESSAGES_LIMIT
  /\ \A k \in 1..Len(context.turns) : context.turns[k].of # 1
  /\ \E k \in 1..Len(context.turns) : context.turns[k].role = "assistant"
  /\ \E k \in 1..Len(context.turns) : context.turns[k].role = "user"

\* C23: the reply-to-bot flag of a built context is true exactly when the
\* new message has a reference, the referenced message can be fetched and its
\* author is the bot; without a reference or with a failing fetch it is false,
\* and the failing fetch of the referenced message never makes the handler
\* reject
C23_ReplyToBotExactAndSwallowed ==
  /\ ContextBuilt =>
       context.replyToBot = (/\ incoming.reference.messageId # 0
                             /\ incoming.reference.fetchOk
                             /\ incoming.reference.author = BotId)
  /\ (pcE = "crashed" /\ incoming.reference.messageId # 0) => ~incoming.fetchOk

\* a reply whose referenced message cannot be fetched: the context is built,
\* the flag is false
C23_Witness ==
  /\ ContextBuilt
  /\ incoming.reference.messageId # 0
  /\ ~incoming.reference.fetchOk
  /\ incoming.reference.author = BotId
  /\ context.replyToBot = FALSE

\* C24: when fetching the channel's history fails the handler catches the
\* failure: it ends without a reply and without an uncaught rejection
C24_HistoryFailureCaught ==
  (~incoming.authorIsBot /\ ~incoming.fetchOk /\ pcE # "start") =>
    /\ pcE # "crashed"
    /\ sent.kind = "none"

\* the handling of the message has ended: ignored, rejected or done
HandlingEnded == pcE \in {"ignored", "crashed", "rejected", "done"}

\* C30: the handling of a message of a non-bot author makes exactly one call
\* of the completion service; the handling of a message of a bot makes none
\* and sends nothing
C30_OneCompletionCallPerMessage ==
  /\ calls <= 1
  /\ HandlingEnded =>
       IF incoming.authorIsBot
         THEN calls = 0 /\ sent.kind = "none"
         ELSE calls = 1

----------------------------------------------------------------------------
\* The handlers

\* a handler of one of the commands ids was run
Ran(ids) == pcT = "ran" /\ tokD.adminCommand \in ids

\* the members the batch went through: the mentioned users that resolve
RanMembers == SelectSeq(tokIn.mentions, LAMBDA m : m.resolves)

\* the members for whom the grant (add = TRUE) or the revoke is due
DueMembers(add) == {k \in 1..Len(RanMembers) : RanMembers[k].holds # add}

\* C25: the count that addToRole reports is the number of members that did
\* not hold the role and whose grant succeeded, and no grant call is made for
\* a member that holds the role; removeFromRole counts the members that held
\* the role and whose revoke succeeded, and makes no revoke call for the others
C25_CountIsSuccessfulDueMembers ==
  (Ran({addToRole, removeFromRole}) /\ tokRun.kind = "done") =>
    LET Counted(due) ==
          /\ tokRun.count = Cardinality({k \in due : RanMembers[k].callOk})
          /\ \A k \in 1..Len(tokRun.calls) : tokRun.calls[k] \in due
    IN  Counted(DueMembers(tokD.adminCommand = addToRole))

\* three mentioned users, the first holds the role, the grant for the second
\* fails: addToRole reports 1
C25_Witness ==
  /\ Ran({addToRole}) /\ tokRun.kind = "done"
  /\ Len(RanMembers) = 3
  /\ RanMembers[1].holds
  /\ ~RanMembers[2].holds /\ ~RanMembers[2].callOk
  /\ ~RanMembers[3].holds /\ RanMembers[3].callOk
  /\ tokRun.count = 1
  /\ tokRun.calls = <<2, 3>>

\* the batch of a batch command was entered: the role and at least one member
\* were resolved, or the voice channels were
BatchEntered ==
  \/ /\ Ran({addToRole, removeFromRole})
     /\ tokIn.originalMessage.exists
     /\ TargetRole(tokIn.originalMessage, tokOpt) # NoRole
     /\ Len(RanMembers) > 0
  \/ Ran({moveAllUsers, disconnectAllUsers}) /\ tokIn.originalMessage.exists /\ tokIn.ok

\* the members for whom the batch owes a call
BatchDue ==
  IF tokD.adminCommand \in {moveAllUsers, disconnectAllUsers}
    THEN 1..Len(RanMembers)
    ELSE DueMembers(tokD.adminCommand = addToRole)

\* C26: in addToRole, removeFromRole, moveAllUsers and disconnectAllUsers a
\* failing call for one member does not end the batch: the call is made for
\* every member it is due for, in order, the handler returns, and it reports
\* one aggregate message with the number of calls that succeeded
C26_BatchContinuesPastFailures ==
  BatchEntered =>
    /\ tokRun.kind = "done"
    /\ Len(tokRun.calls) = Cardinality(BatchDue)
    /\ \A k \in BatchDue : \E i \in 1..Len(tokRun.calls) : tokRun.calls[i] = k
    /\ \A i \in 1..(Len(tokRun.calls) - 1) : tokRun.calls[i] < tokRun.calls[i + 1]
    /\ tokRun.count = Cardinality({k \in BatchDue : RanMembers[k].callOk})
    /\ tokRun.message \in
         { "Added ${added} user(s) to **${role.name}**.",
           "Removed ${removed} user(s) from **${role.name}**.",
           "Moved ${moved} user(s) from **${sourceChannel.name}** to **${targetChannel.name}**.",
           "Disconnected ${disconnected} user(s) from **${voiceChannel.name}**." }

\* moving everyone out of a channel of two members, the first cannot be
\* moved: the second is moved, and 1 is reported
C26_Witness ==
  /\ Ran({moveAllUsers}) /\ tokIn.originalMessage.exists /\ tokIn.ok
  /\ Len(RanMembers) = 2
  /\ ~RanMembers[1].callOk /\ RanMembers[2].callOk
  /\ tokRun.calls = <<1, 2>>
  /\ tokRun.count = 1
  /\ tokRun.kind = "done"

\* the first user mentioned in the original message resolves to a member
\* that is kickable (for kickUser) or moderatable (for muteUser)
FirstMemberAble ==
  /\ Len(tokIn.mentions) > 0
  /\ tokIn.mentions[1].resolves
  /\ IF tokD.adminCommand = kickUser THEN tokIn.mentions[1].kickable
     ELSE tokIn.mentions[1].moderatable

\* C27: kickUser makes the kick call exactly when the first mentioned user
\* resolves to a kickable member, and for that member; without a mention (or
\* a member) it reports the message that asks for a mention, with a member
\* that is not kickable the message that it cannot kick, and makes no call.
\* The same holds for muteUser with moderatable and the timeout call
C27_KickOnlyKickableFirstMention ==
  (Ran({kickUser, muteUser}) /\ tokIn.originalMessage.exists) =>
    LET kick == tokD.adminCommand = kickUser
    IN  /\ tokRun.calls = (IF FirstMemberAble THEN <<1>> ELSE <<>>)
        /\ (Len(tokIn.mentions) = 0 \/ ~tokIn.mentions[1].resolves) =>
             tokRun.message = (IF kick THEN "Mention a user to kick (e.g. kick @user)."
                               ELSE "Mention a user to mute/timeout (e.g. mute @user).")
        /\ (Len(tokIn.mentions) > 0 /\ tokIn.mentions[1].resolves /\ ~FirstMemberAble) =>
             tokRun.message =
               (IF kick THEN "I can't kick that user (role hierarchy or permissions)."
                ELSE "I can't timeout that user (role hierarchy or permissions).")

\* two mentioned users, the first is not kickable and the second is: nobody
\* is kicked
C27_Witness ==
  /\ Ran({kickUser}) /\ tokIn.originalMessage.exists
  /\ Len(tokIn.mentions) = 2
  /\ tokIn.mentions[1].resolves /\ ~tokIn.mentions[1].kickable
  /\ tokIn.mentions[2].resolves /\ tokIn.mentions[2].kickable
  /\ tokRun.calls = <<>>
  /\ tokRun.message = "I can't kick that user (role hierarchy or permissions)."

\* role.edit was called by the renameRole handler: it renamed the role, or
\* the call rejected
EditCalled ==
  \/ tokRun.kind = "renamed"
  \/ tokRun.kind = "threw" /\ tokRun.role # NoRole

\* C28: deleteRole makes no delete call for a managed role and reports that
\* it cannot delete the role, and makes no call when no role is resolved;
\* renameRole makes no edit call for a managed role or without a role, and
\* reports a failure message for a managed role
C28_ManagedRoleNeverDeletedOrRenamed ==
  /\ Ran({deleteRole}) =>
       LET Guarded(role) ==
             /\ role = NoRole => tokRun.calls = <<>>
             /\ role.managed =>
                  /\ tokRun.calls = <<>>
                  /\ tokRun.message =
                       "Can't delete that role (it's managed by an integration)."
       IN  Guarded(IF tokIn.originalMessage.exists
                     THEN TargetRole(tokIn.originalMessage, tokOpt) ELSE NoRole)
  /\ Ran({renameRole}) =>
       /\ EditCalled => (tokRun.role # NoRole /\ ~tokRun.role.managed)
       /\ tokRun.role.managed => tokRun.kind \in {"managed", "needNewName"}

\* the original message mentions the managed role 'Bot': nothing is deleted
C28_Witness ==
  /\ Ran({deleteRole})
  /\ tokIn.originalMessage.exists
  /\ tokIn.originalMessage.roleMention # NoRole
  /\ tokIn.originalMessage.roleMention.managed
  /\ tokIn.ok
  /\ tokRun.calls = <<>>
  /\ tokRun.kind = "managed"

\* the roles of the guild whose lower-cased name satisfies: equals the
\* trimmed, lower-cased roleName (exact = TRUE), or contains it
RolesMatching(exact) ==
  { GuildRoles[k] : k \in
      { j \in 1..Len(GuildRoles) :
          IF exact
            THEN ToLowerCase(GuildRoles[j].name) = ToLowerCase(Trim(tokOpt.roleName))
            ELSE Includes(ToLowerCase(GuildRoles[j].name),
                          ToLowerCase(Trim(tokOpt.roleName))) } }

\* C29: the role a handler acts on is the role that the original message
\* mentions when it mentions one, whatever roleName is; else a role whose name
\* equals the trimmed roleName without regard to case; else, when there is no
\* such role, a role whose name contains it without regard to case; else
\* (and without a roleName) none
C29_TargetRoleResolution ==
  (Ran({deleteRole}) /\ tokIn.originalMessage.exists) =>
    IF tokIn.originalMessage.roleMention # NoRole
      THEN tokRun.role = tokIn.originalMessage.roleMention
    ELSE IF tokOpt.roleName = <<>> THEN tokRun.role = NoRole
    ELSE IF RolesMatching(TRUE) # {} THEN tokRun.role \in RolesMatching(TRUE)
    ELSE IF RolesMatching(FALSE) # {} THEN tokRun.role \in RolesMatching(FALSE)
    ELSE tokRun.role = NoRole

\* roleName 'eve' without a role mention: '@everyone', which contains it,
\* comes first in the cache, and the role 'eve' is the target
C29_Witness ==
  /\ Ran({deleteRole}) /\ tokIn.originalMessage.exists
  /\ tokIn.originalMessage.roleMention = NoRole
  /\ tokOpt.roleName = <<101,118,101>>
  /\ tokRun.role = GuildRoles[5]
  /\ Cardinality(RolesMatching(FALSE)) > 1

----------------------------------------------------------------------------
(* Properties of the concurrent handling of messages (SpecHandling)        *)

\* the replies that the bot sent in this behaviour
SentReplies == {k \in 1..Len(store) : store[k].author = BotId /\ store[k].replyTo # 0}

WithConversation ==
  {id \in DOMAIN handling : handling[id].pc \in {"engine", "send", "done"}}

\* C32: whatever the interleaving of arrivals and handling tasks, the
\* conversation of a task ends with the message that the task handles, the
\* message whose reference decided replyToBot
C32_ConversationEndsWithTriggeringMessage ==
  \A id \in WithConversation :
    LET turns == handling[id].conversation.turns
    IN  /\ Len(turns) > 0
        /\ turns[Len(turns)].of = id

----------------------------------------------------------------------------
\* The reports of a dispatched activation (specification SpecToken)

\* the follow-ups that the handler attempted itself
HandlerFollowUps ==
  IF tokD.adminCommand = renameRole
    THEN IF tokRun.kind = "threw" THEN <<>> ELSE <<tokRun.kind>>
    ELSE IF tokRun.message = "" THEN <<>> ELSE <<tokRun.message>>

\* the follow-ups attempted for the activation
FollowUps == DispatchFollowUps(HandlerFollowUps, tokRun.kind = "threw")

\* C33: an activation whose handler was called attempts exactly one report:
\* the follow-up of the handler when the handler returned, the "Failed: ..."
\* follow-up of the dispatcher when it threw
C33_ExactlyOneOutcomeReport ==
  Ran(RegistryIds) =>
    /\ Len(FollowUps) = 1
    /\ (FollowUps[1] = "Failed: ${err.message}") <=> (tokRun.kind = "threw")

\* a kick that the platform refused: the handler threw after its call and
\* before its follow-up, the dispatcher reports the failure
C33_Witness ==
  /\ Ran({kickUser})
  /\ tokIn.originalMessage.exists
  /\ tokRun.calls = <<1>>
  /\ tokRun.kind = "threw"
  /\ FollowUps = <<"Failed: ${err.message}">>

\* the handler made a privileged call
PrivilegedCall ==
  IF tokD.adminCommand = renameRole THEN EditCalled ELSE tokRun.calls # <<>>

\* C34: when the original message is not resolved (getOriginalMessage gave
\* null), the handler of every command but clearMessages and createRole makes
\* no privileged call, and the activation ends with one failure report: the
\* dispatcher's "Failed: ..." for what the handler threw, or the handler's
\* own request for the channels
C34_NoCallWithoutOriginalMessage ==
  (Ran(RegistryIds \ {clearMessages, createRole}) /\ ~tokIn.originalMessage.exists) =>
    /\ ~PrivilegedCall
    /\ tokRun.kind \in {"threw", "needChannel"}
    /\ Len(FollowUps) = 1
    /\ tokRun.kind = "threw" => FollowUps = <<"Failed: ${err.message}">>
    /\ tokRun.kind = "needChannel" =>
         /\ tokD.adminCommand \in {moveAllUsers, disconnectAllUsers}
         /\ FollowUps[1] \in
              { "Specify source and target voice channels (e.g. move everyone from General to Music).",
                "Specify a voice channel (e.g. disconnect everyone in General)." }

\* deleteRole for the role 'a', which exists and can be deleted, with a null
\* original message: nothing is deleted, the failure is reported
C34_Witness ==
  /\ Ran({deleteRole})
  /\ ~tokIn.originalMessage.exists
  /\ tokIn.ok
  /\ tokOpt.roleName = <<97>>
  /\ tokRun.calls = <<>>
  /\ FollowUps = <<"Failed: ${err.message}">>
====
